---- MODULE Spec2Model ----
(***************************************************************************)
(* Model of nanobot's session-aware message bus                            *)
(* (src/nanobot/bus/queue.py, class MessageBus).                           *)
(*                                                                         *)
(* The bus runs on one asyncio event loop.  A coroutine is suspended only  *)
(* where an await really blocks: Queue.get on an empty queue and           *)
(* Lock.acquire on a held lock.  Queue.put on the unbounded queues of      *)
(* __init__ never blocks, and no coroutine of the bus awaits anything      *)
(* that blocks while it holds _inbound_collect_lock, so the lock is free   *)
(* whenever a coroutine is resumed and every bus operation below is one    *)
(* atomic step: consume_inbound is the step from the wake-up of Queue.get  *)
(* to its return.                                                          *)
(***************************************************************************)
EXTENDS Integers, Sequences, FiniteSets, TLC

(***************************************************************************)
(* Bounds of the model.                                                    *)
(***************************************************************************)
MaxMsgs == 4
\* The longest list passed to a call of _merge_buffered_messages on its own.
MaxMergeLen == 3
\* The number of calls of publish_outbound and of subscribe_outbound.
MaxOut == 2
MaxSubs == 2

(***************************************************************************)
(* Inputs: channel adapters publish messages of a few chats and senders.   *)
(***************************************************************************)
Channels == {"t"}
Chats == {"1", "2"}
\* The sender of the i-th message: two users, alternating irregularly.
Sender(i) == IF i % 3 = 2 THEN "u2" ELSE "u1"

\* Python's None, the value of _active_inbound_session when no turn is owned.
None == "None"

\* InboundMessage.session_key: "channel:chat_id".
session_key(m) == m.channel \o ":" \o m.chat_id

SessionKeys == {c \o ":" \o h : c \in Channels, h \in Chats}

\* The i-th message handed to publish_inbound; content, media, metadata and
\* timestamp are distinct per message so that every message can be traced.
Content(i) == "m" \o ToString(i)
Media(i) == IF i % 2 = 1 THEN <<"f" \o ToString(i)>> ELSE <<>>
Metadata(i) == IF i % 2 = 1 THEN ("message_id" :> ToString(i))
               ELSE ("message_id" :> ToString(i)) @@ ("is_group" :> "yes")

InboundMessage(ch, chat, i) ==
    [channel |-> ch, sender_id |-> Sender(i), chat_id |-> chat, content |-> Content(i),
     media |-> Media(i), metadata |-> Metadata(i), timestamp |-> i]

\* An envelope that was never published, used for calls of
\* complete_inbound_turn that do not belong to a turn.
Stranger(chat) ==
    [channel |-> "t", sender_id |-> "u1", chat_id |-> chat, content |-> "stranger",
     media |-> <<>>, metadata |-> ("message_id" :> "0"), timestamp |-> 0]

(***************************************************************************)
(* _merge_buffered_messages                                                *)
(***************************************************************************)
\* datetime.isoformat(): the timestamp rendered as a string.
isoformat(t) == "2026-01-01T00:00:0" \o ToString(t)

RECURSIVE JoinParts_single_newline(_)
\* "\n".join(parts): the parts on consecutive lines, no blank line between.
JoinParts_single_newline(parts) ==
    IF Len(parts) = 0 THEN ""
    ELSE IF Len(parts) = 1 THEN parts[1]
    ELSE parts[1] \o "\n" \o JoinParts_single_newline(Tail(parts))

RECURSIVE JoinParts(_)
\* "\n\n".join(parts)
JoinParts(parts) ==
    IF Len(parts) = 0 THEN ""
    ELSE IF Len(parts) = 1 THEN parts[1]
    ELSE parts[1] \o "\n\n" \o JoinParts(Tail(parts))

RECURSIVE FlattenMedia(_)
\* [item for m in messages for item in m.media]
FlattenMedia(messages) ==
    IF Len(messages) = 0 THEN <<>>
    ELSE Head(messages).media \o FlattenMedia(Tail(messages))

\* A snapshot that keeps the date of the timestamp and drops the time.
Snapshot_date_only(m) ==
    [sender_id |-> m.sender_id, content |-> m.content, media |-> m.media,
     timestamp |-> "2026-01-01", metadata |-> m.metadata]

\* One entry of the collected list.
Snapshot(m) ==
    [sender_id |-> m.sender_id, content |-> m.content, media |-> m.media,
     timestamp |-> isoformat(m.timestamp), metadata |-> m.metadata]

\* {**messages[-1].metadata, "collected_messages": collected}
MergedMetadata(lastmd, collected) ==
    [k \in (DOMAIN lastmd) \cup {"collected_messages"} |->
        IF k = "collected_messages" THEN collected ELSE lastmd[k]]

\* The merge with messages[0] where the code has messages[-1].
_merge_first_wins(messages) ==
    IF Len(messages) = 1 THEN messages[1]
    ELSE LET parts == [j \in 1..Len(messages) |->
                          "[" \o messages[j].sender_id \o "] " \o messages[j].content]
             collected == [j \in 1..Len(messages) |-> Snapshot(messages[j])]
             first_m == messages[1]
         IN  [channel |-> first_m.channel,
              sender_id |-> first_m.sender_id,
              chat_id |-> first_m.chat_id,
              content |-> JoinParts(parts),
              media |-> FlattenMedia(messages),
              metadata |-> MergedMetadata(first_m.metadata, collected),
              timestamp |-> first_m.timestamp]

\* The merge without the shortcut of lines 64-65.
_merge_always_wrap(messages) ==
    LET parts == [j \in 1..Len(messages) |->
                     "[" \o messages[j].sender_id \o "] " \o messages[j].content]
        collected == [j \in 1..Len(messages) |-> Snapshot(messages[j])]
        last_m == messages[Len(messages)]
    IN  [channel |-> last_m.channel,
         sender_id |-> last_m.sender_id,
         chat_id |-> last_m.chat_id,
         content |-> JoinParts(parts),
         media |-> FlattenMedia(messages),
         metadata |-> MergedMetadata(last_m.metadata, collected),
         timestamp |-> last_m.timestamp]

_merge_buffered_messages(messages) ==
    IF Len(messages) = 1 THEN messages[1]
    ELSE LET parts == [j \in 1..Len(messages) |->
                          "[" \o messages[j].sender_id \o "] " \o messages[j].content]
             collected == [j \in 1..Len(messages) |-> Snapshot(messages[j])]
             last_m == messages[Len(messages)]
         IN  [channel |-> last_m.channel,
              sender_id |-> last_m.sender_id,
              chat_id |-> last_m.chat_id,
              content |-> JoinParts(parts),
              media |-> FlattenMedia(messages),
              metadata |-> MergedMetadata(last_m.metadata, collected),
              timestamp |-> last_m.timestamp]

(***************************************************************************)
(* State                                                                   *)
(***************************************************************************)
VARIABLES
    inbound,        \* self.inbound: the inbound mailbox, head first
    active,         \* self._active_inbound_session
    buffer,         \* self._inbound_collect_buffer: session key -> list
    published,      \* log: the calls of publish_inbound, in order
    returned,       \* log: the envelopes returned by consume_inbound, in order
    outstanding,    \* log: envelopes returned and not yet completed
    flush,          \* log: the last flush no consume_inbound has followed yet
    awaited,        \* log: per session, the flush no turn of it has followed yet
    last,           \* log: the operation of the last step
    alternated,     \* log: so far every consume_inbound found no turn open
                    \*      and every complete_inbound_turn closed an open turn
    merge_in,       \* the argument of a call of _merge_buffered_messages
    merge_out,      \* the value that call returned
    outbound,       \* self.outbound: the outbound mailbox, head first
    subscribers,    \* self._outbound_subscribers: channel -> list of callbacks
    running,        \* self._running
    dpc,            \* where the coroutine dispatch_outbound is
    cur,            \* dispatch_outbound's msg, subscribers and loop position
    sent,           \* log: the messages handed to publish_outbound, in order
    taken,          \* log: the messages returned by consume_outbound, in order
    dequeued,       \* log: the messages dispatch_outbound took, in order
    calls,          \* log: the callback invocations that have ended, in order
    lock,           \* self._inbound_collect_lock: its holder, or None
    pub,            \* a coroutine running publish_inbound: position and msg
    con,            \* a coroutine running consume_inbound: position and msg
    com,            \* a coroutine running complete_inbound_turn: position, msg
    early_stop,     \* log: stop() was called before dispatch_outbound started
    tool,           \* a MessageTool: _send_callback and the three defaults
    ex,             \* a coroutine running MessageTool.execute: position,
                    \*      arguments, msg, returned string, callback invocations
    invocations,    \* log: the number of invocations of the send callback
    typing_tasks,   \* TelegramChannel._typing_tasks: chat id -> task
    tasks,          \* every typing task created so far: its chat and state
    app,            \* TelegramChannel._app
    stopping,       \* a coroutine running TelegramChannel.stop is at its awaits
    typing_last     \* log: the call of the channel the last step began or ended

busVars == <<inbound, active, buffer, published, returned, outstanding, flush,
             awaited, last, alternated>>
mergeVars == <<merge_in, merge_out>>
outVars == <<outbound, subscribers, running, dpc, cur, sent, taken, dequeued, calls>>

lockVars == <<lock, pub, con, com>>

toolVars == <<tool, ex, invocations>>
typingVars == <<typing_tasks, tasks, app, stopping, typing_last>>

vars == <<busVars, mergeVars, outVars, lockVars, early_stop, toolVars, typingVars>>

\* What the inbound operations, the dispatcher and a call of merge leave alone.
notBus == <<mergeVars, outVars, lockVars, early_stop, toolVars, typingVars>>
notOut == <<busVars, mergeVars, lockVars, early_stop, toolVars, typingVars>>
notMerge == <<busVars, outVars, lockVars, early_stop, toolVars, typingVars>>

\* dict.setdefault(k, []).append(m)
DictAppend(d, k, m) ==
    IF k \in DOMAIN d THEN [d EXCEPT ![k] = Append(@, m)]
    ELSE [j \in (DOMAIN d) \cup {k} |-> IF j = k THEN <<m>> ELSE d[j]]

\* dict.pop(k, []): the value ...
DictGet(d, k) == IF k \in DOMAIN d THEN d[k] ELSE <<>>
\* ... and the dict that is left
DictRemove(d, k) == [j \in (DOMAIN d) \ {k} |-> d[j]]

EmptyDict == [j \in {} |-> <<>>]

\* d[k] = v
DictPut(d, k, v) == [j \in (DOMAIN d) \cup {k} |-> IF j = k THEN v ELSE d[j]]

\* The number of envelopes of session k in queue q.
CountKey(q, k) == Cardinality({j \in 1..Len(q) : session_key(q[j]) = k})

\* No flush is waiting for a consume_inbound.
NoFlush == [buf |-> <<>>, ahead |-> 0]

\* MessageBus.__init__, the inbound side.
BusInit ==
    /\ inbound = <<>>
    /\ active = None
    /\ buffer = EmptyDict
    /\ published = <<>>
    /\ returned = <<>>
    /\ outstanding = {}
    /\ flush = NoFlush
    /\ awaited = EmptyDict
    /\ last = [op |-> "init"]
    /\ alternated = TRUE

\* No call of _merge_buffered_messages is under way.
NoMerge ==
    /\ merge_in = <<>>
    /\ merge_out = <<>>

\* dispatch_outbound's locals before it has taken a message.
NoCur == [msg |-> [channel |-> None, chat_id |-> None, content |-> None], idx |-> 0]

\* MessageBus.__init__, the outbound side; dispatch_outbound is not started.
OutInit ==
    /\ outbound = <<>>
    /\ subscribers = EmptyDict
    /\ running = FALSE
    /\ dpc = "idle"
    /\ cur = NoCur
    /\ sent = <<>>
    /\ taken = <<>>
    /\ dequeued = <<>>
    /\ calls = <<>>

\* No coroutine is inside an inbound operation; the lock is free.
Idle == [pc |-> "idle", msg |-> Stranger("1"), buffered |-> <<>>]

LockInit ==
    /\ lock = None
    /\ pub = Idle
    /\ con = Idle
    /\ com = Idle
    /\ early_stop = FALSE

\* MessageTool() with the defaults of its constructor, no call of execute
\* under way and no send callback invoked.
EmptyMeta == [j \in {} |-> ""]

NoEx ==
    [pc |-> "idle", content |-> "", channel |-> None, chat_id |-> None,
     media |-> <<>>, send_sticker |-> [str |-> FALSE, val |-> "False"],
     msg |-> <<>>, result |-> "", invoked |-> 0]

NoTool ==
    /\ tool = [send_callback |-> None, default_channel |-> "",
               default_chat_id |-> "", default_metadata |-> EmptyMeta]
    /\ ex = NoEx
    /\ invocations = 0

\* TelegramChannel.__init__: no application, no typing task.
NoTyping ==
    /\ typing_tasks = EmptyDict
    /\ tasks = <<>>
    /\ app = None
    /\ stopping = FALSE
    /\ typing_last = [op |-> "init", chat_id |-> None]

Init == BusInit /\ NoMerge /\ OutInit /\ LockInit /\ NoTool /\ NoTyping

(***************************************************************************)
(* publish_inbound(msg)                                                    *)
(***************************************************************************)
\* publish_inbound with the `return` of line 41 one level out: a message of a
\* session that is not active is never put on the mailbox.
publish_inbound_return_slip(msg) ==
    /\ IF active # None /\ session_key(msg) = active
       THEN buffer' = DictAppend(buffer, session_key(msg), msg)
       ELSE UNCHANGED buffer
    /\ UNCHANGED inbound
    /\ published' = Append(published, [msg |-> msg, active_at |-> active])
    /\ last' = [op |-> "publish", msg |-> msg]
    /\ UNCHANGED <<active, returned, outstanding, flush, awaited, alternated>>
    /\ UNCHANGED notBus

\* publish_inbound without the test of line 37: every message is enqueued.
publish_inbound_always_enqueue(msg) ==
    /\ inbound' = Append(inbound, msg)
    /\ UNCHANGED buffer
    /\ published' = Append(published, [msg |-> msg, active_at |-> active])
    /\ last' = [op |-> "publish", msg |-> msg]
    /\ UNCHANGED <<active, returned, outstanding, flush, awaited, alternated>>
    /\ UNCHANGED notBus

\* publish_inbound testing only that some session is active.
publish_inbound_any_active(msg) ==
    /\ IF active # None
       THEN /\ buffer' = DictAppend(buffer, session_key(msg), msg)
            /\ UNCHANGED inbound
       ELSE /\ inbound' = Append(inbound, msg)
            /\ UNCHANGED buffer
    /\ published' = Append(published, [msg |-> msg, active_at |-> active])
    /\ last' = [op |-> "publish", msg |-> msg]
    /\ UNCHANGED <<active, returned, outstanding, flush, awaited, alternated>>
    /\ UNCHANGED notBus

\* publish_inbound putting the message at the front of the session's list.
publish_inbound_prepend(msg) ==
    /\ IF active # None /\ session_key(msg) = active
       THEN /\ buffer' = DictPut(buffer, session_key(msg),
                                 <<msg>> \o DictGet(buffer, session_key(msg)))
            /\ UNCHANGED inbound
       ELSE /\ inbound' = Append(inbound, msg)
            /\ UNCHANGED buffer
    /\ published' = Append(published, [msg |-> msg, active_at |-> active])
    /\ last' = [op |-> "publish", msg |-> msg]
    /\ UNCHANGED <<active, returned, outstanding, flush, awaited, alternated>>
    /\ UNCHANGED notBus

publish_inbound(msg) ==
    /\ IF active # None /\ session_key(msg) = active
       THEN /\ buffer' = DictAppend(buffer, session_key(msg), msg)
            /\ UNCHANGED inbound
       ELSE /\ inbound' = Append(inbound, msg)
            /\ UNCHANGED buffer
    /\ published' = Append(published, [msg |-> msg, active_at |-> active])
    /\ last' = [op |-> "publish", msg |-> msg]
    /\ UNCHANGED <<active, returned, outstanding, flush, awaited, alternated>>
    /\ UNCHANGED notBus

(***************************************************************************)
(* consume_inbound(): returns once the mailbox is not empty                *)
(***************************************************************************)
\* consume_inbound that drains the mailbox: the envelopes of the head's
\* session are taken out and merged, the others are put back in order.
consume_inbound_drain ==
    /\ inbound # <<>>
    /\ LET k == session_key(Head(inbound))
           same_session == SelectSeq(inbound, LAMBDA e : session_key(e) = k)
           others == SelectSeq(inbound, LAMBDA e : session_key(e) # k)
           msg == _merge_buffered_messages(same_session)
       IN  /\ inbound' = others
           /\ active' = k
           /\ returned' = Append(returned, msg)
           /\ outstanding' = outstanding \cup {msg}
           /\ last' = [op |-> "consume", msg |-> msg]
    /\ flush' = NoFlush
    /\ awaited' = DictRemove(awaited, session_key(Head(inbound)))
    /\ alternated' = (alternated /\ outstanding = {})
    /\ UNCHANGED <<buffer, published>>
    /\ UNCHANGED notBus

\* consume_inbound without lines 47-48: the registry is left as it was.
consume_inbound_no_activate ==
    /\ inbound # <<>>
    /\ LET msg == Head(inbound)
       IN  /\ inbound' = Tail(inbound)
           /\ UNCHANGED active
           /\ returned' = Append(returned, msg)
           /\ outstanding' = outstanding \cup {msg}
           /\ last' = [op |-> "consume", msg |-> msg]
    /\ flush' = NoFlush
    /\ awaited' = DictRemove(awaited, session_key(Head(inbound)))
    /\ alternated' = (alternated /\ outstanding = {})
    /\ UNCHANGED <<buffer, published>>
    /\ UNCHANGED notBus

\* consume_inbound that drains the mailbox and puts the envelopes of the
\* other sessions back last one first.
consume_inbound_drain_reversed ==
    /\ inbound # <<>>
    /\ LET k == session_key(Head(inbound))
           same_session == SelectSeq(inbound, LAMBDA e : session_key(e) = k)
           others == SelectSeq(inbound, LAMBDA e : session_key(e) # k)
           msg == _merge_buffered_messages(same_session)
       IN  /\ inbound' = [j \in 1..Len(others) |-> others[Len(others) + 1 - j]]
           /\ active' = k
           /\ returned' = Append(returned, msg)
           /\ outstanding' = outstanding \cup {msg}
           /\ last' = [op |-> "consume", msg |-> msg]
    /\ flush' = NoFlush
    /\ awaited' = DictRemove(awaited, session_key(Head(inbound)))
    /\ alternated' = (alternated /\ outstanding = {})
    /\ UNCHANGED <<buffer, published>>
    /\ UNCHANGED notBus

consume_inbound ==
    /\ inbound # <<>>
    /\ LET msg == Head(inbound)
       IN  /\ inbound' = Tail(inbound)
           /\ active' = session_key(msg)
           /\ returned' = Append(returned, msg)
           /\ outstanding' = outstanding \cup {msg}
           /\ last' = [op |-> "consume", msg |-> msg]
    /\ flush' = NoFlush
    /\ awaited' = DictRemove(awaited, session_key(Head(inbound)))
    /\ alternated' = (alternated /\ outstanding = {})
    /\ UNCHANGED <<buffer, published>>
    /\ UNCHANGED notBus

(***************************************************************************)
(* complete_inbound_turn(msg)                                              *)
(***************************************************************************)
\* complete_inbound_turn that flushes only the newest buffered message.
complete_inbound_turn_last_only(msg) ==
    /\ LET buffered == DictGet(buffer, session_key(msg))
       IN  /\ buffer' = DictRemove(buffer, session_key(msg))
           /\ IF buffered # <<>>
              THEN /\ inbound' = Append(inbound, buffered[Len(buffered)])
                   /\ flush' = [buf |-> buffered, ahead |-> Len(inbound)]
                   /\ awaited' = DictPut(awaited, session_key(msg),
                                    [env |-> _merge_buffered_messages(buffered),
                                     ahead |-> CountKey(inbound, session_key(msg))])
              ELSE UNCHANGED <<inbound, flush, awaited>>
    /\ active' = None
    /\ outstanding' = outstanding \ {msg}
    /\ last' = [op |-> "complete", msg |-> msg]
    /\ alternated' = (alternated /\ msg \in outstanding)
    /\ UNCHANGED <<published, returned>>
    /\ UNCHANGED notBus

\* complete_inbound_turn reading the buffer with get instead of pop.
complete_inbound_turn_keeps_buffer(msg) ==
    /\ LET buffered == DictGet(buffer, session_key(msg))
       IN  /\ UNCHANGED buffer
           /\ IF buffered # <<>>
              THEN /\ inbound' = Append(inbound, _merge_buffered_messages(buffered))
                   /\ flush' = [buf |-> buffered, ahead |-> Len(inbound)]
                   /\ awaited' = DictPut(awaited, session_key(msg),
                                    [env |-> _merge_buffered_messages(buffered),
                                     ahead |-> CountKey(inbound, session_key(msg))])
              ELSE UNCHANGED <<inbound, flush, awaited>>
    /\ active' = None
    /\ outstanding' = outstanding \ {msg}
    /\ last' = [op |-> "complete", msg |-> msg]
    /\ alternated' = (alternated /\ msg \in outstanding)
    /\ UNCHANGED <<published, returned>>
    /\ UNCHANGED notBus

\* complete_inbound_turn with line 59 inside the `if buffered:` block.
complete_inbound_turn_conditional_clear(msg) ==
    /\ LET buffered == DictGet(buffer, session_key(msg))
       IN  /\ buffer' = DictRemove(buffer, session_key(msg))
           /\ IF buffered # <<>>
              THEN /\ inbound' = Append(inbound, _merge_buffered_messages(buffered))
                   /\ flush' = [buf |-> buffered, ahead |-> Len(inbound)]
                   /\ awaited' = DictPut(awaited, session_key(msg),
                                    [env |-> _merge_buffered_messages(buffered),
                                     ahead |-> CountKey(inbound, session_key(msg))])
                   /\ active' = None
              ELSE UNCHANGED <<inbound, flush, awaited, active>>
    /\ outstanding' = outstanding \ {msg}
    /\ last' = [op |-> "complete", msg |-> msg]
    /\ alternated' = (alternated /\ msg \in outstanding)
    /\ UNCHANGED <<published, returned>>
    /\ UNCHANGED notBus

\* complete_inbound_turn that cannot go on while dispatch_outbound is inside
\* a callback.
complete_inbound_turn_waits_dispatcher(msg) ==
    /\ dpc # "in_callback"
    /\ LET buffered == DictGet(buffer, session_key(msg))
       IN  /\ buffer' = DictRemove(buffer, session_key(msg))
           /\ IF buffered # <<>>
              THEN /\ inbound' = Append(inbound, _merge_buffered_messages(buffered))
                   /\ flush' = [buf |-> buffered, ahead |-> Len(inbound)]
                   /\ awaited' = DictPut(awaited, session_key(msg),
                                    [env |-> _merge_buffered_messages(buffered),
                                     ahead |-> CountKey(inbound, session_key(msg))])
              ELSE UNCHANGED <<inbound, flush, awaited>>
    /\ active' = None
    /\ outstanding' = outstanding \ {msg}
    /\ last' = [op |-> "complete", msg |-> msg]
    /\ alternated' = (alternated /\ msg \in outstanding)
    /\ UNCHANGED <<published, returned>>
    /\ UNCHANGED notBus

\* complete_inbound_turn that puts the flushed envelope at the head of the
\* mailbox.
complete_inbound_turn_flush_first(msg) ==
    /\ LET buffered == DictGet(buffer, session_key(msg))
       IN  /\ buffer' = DictRemove(buffer, session_key(msg))
           /\ IF buffered # <<>>
              THEN /\ inbound' = <<_merge_buffered_messages(buffered)>> \o inbound
                   /\ flush' = [buf |-> buffered, ahead |-> Len(inbound)]
                   /\ awaited' = DictPut(awaited, session_key(msg),
                                    [env |-> _merge_buffered_messages(buffered),
                                     ahead |-> CountKey(inbound, session_key(msg))])
              ELSE UNCHANGED <<inbound, flush, awaited>>
    /\ active' = None
    /\ outstanding' = outstanding \ {msg}
    /\ last' = [op |-> "complete", msg |-> msg]
    /\ alternated' = (alternated /\ msg \in outstanding)
    /\ UNCHANGED <<published, returned>>
    /\ UNCHANGED notBus

complete_inbound_turn(msg) ==
    /\ LET buffered == DictGet(buffer, session_key(msg))
       IN  /\ buffer' = DictRemove(buffer, session_key(msg))
           /\ IF buffered # <<>>
              THEN /\ inbound' = Append(inbound, _merge_buffered_messages(buffered))
                   /\ flush' = [buf |-> buffered, ahead |-> Len(inbound)]
                   /\ awaited' = DictPut(awaited, session_key(msg),
                                    [env |-> _merge_buffered_messages(buffered),
                                     ahead |-> CountKey(inbound, session_key(msg))])
              ELSE UNCHANGED <<inbound, flush, awaited>>
    /\ active' = None
    /\ outstanding' = outstanding \ {msg}
    /\ last' = [op |-> "complete", msg |-> msg]
    /\ alternated' = (alternated /\ msg \in outstanding)
    /\ UNCHANGED <<published, returned>>
    /\ UNCHANGED notBus

(***************************************************************************)
(* The inbound operations statement by statement                           *)
(*                                                                         *)
(* Here every await and every `async with` is a point where the event loop *)
(* may run another coroutine, whether or not it suspends there: a superset *)
(* of the interleavings of asyncio.  One coroutine at a time is inside     *)
(* each operation.  Acquiring _inbound_collect_lock waits while the lock   *)
(* is held; Queue.get waits while the mailbox is empty; Queue.put on the   *)
(* unbounded mailbox never waits.                                          *)
(***************************************************************************)
\* What the statements of the inbound operations leave alone.
notLock == <<flush, awaited, last, alternated, mergeVars, outVars, early_stop,
             toolVars, typingVars>>

\* A channel adapter calls publish_inbound(msg) for the next message of a
\* chat and reaches line 36.
PubCall ==
    /\ pub.pc = "idle"
    /\ Len(published) < MaxMsgs
    /\ pub' = [Idle EXCEPT !.pc = "acquire",
                            !.msg = InboundMessage("t", "1", Len(published) + 1)]
    /\ UNCHANGED <<inbound, active, buffer, published, returned, outstanding,
                   lock, con, com>>
    /\ UNCHANGED notLock

\* Line 36: the lock is taken once it is free.
PubAcquire ==
    /\ pub.pc = "acquire"
    /\ lock = None
    /\ lock' = "pub"
    /\ pub' = [pub EXCEPT !.pc = "locked"]
    /\ UNCHANGED <<inbound, active, buffer, published, returned, outstanding, con, com>>
    /\ UNCHANGED notLock

\* Lines 37-41: the test, the append and the return, or the end of the
\* block; the lock is released either way.
PubLocked ==
    /\ pub.pc = "locked"
    /\ published' = Append(published, [msg |-> pub.msg, active_at |-> active])
    /\ IF active # None /\ session_key(pub.msg) = active
       THEN /\ buffer' = DictAppend(buffer, session_key(pub.msg), pub.msg)
            /\ pub' = Idle
       ELSE /\ UNCHANGED buffer
            /\ pub' = [pub EXCEPT !.pc = "put"]
    /\ lock' = None
    /\ UNCHANGED <<inbound, active, returned, outstanding, con, com>>
    /\ UNCHANGED notLock

\* Line 42.
PubPut ==
    /\ pub.pc = "put"
    /\ inbound' = Append(inbound, pub.msg)
    /\ pub' = Idle
    /\ UNCHANGED <<active, buffer, published, returned, outstanding, lock, con, com>>
    /\ UNCHANGED notLock

\* consume_inbound that takes the lock before it waits for the mailbox.
ConCall_lock_first ==
    /\ con.pc = "idle"
    /\ lock = None
    /\ lock' = "con"
    /\ con' = [con EXCEPT !.pc = "get"]
    /\ UNCHANGED <<inbound, active, buffer, published, returned, outstanding, pub, com>>
    /\ UNCHANGED notLock

\* The agent loop calls consume_inbound() and reaches line 46.
ConCall ==
    /\ con.pc = "idle"
    /\ con' = [con EXCEPT !.pc = "get"]
    /\ UNCHANGED <<inbound, active, buffer, published, returned, outstanding,
                   lock, pub, com>>
    /\ UNCHANGED notLock

\* Line 46: get returns once the mailbox is not empty.
ConGet ==
    /\ con.pc = "get"
    /\ inbound # <<>>
    /\ inbound' = Tail(inbound)
    /\ con' = [con EXCEPT !.pc = "acquire", !.msg = Head(inbound)]
    /\ UNCHANGED <<active, buffer, published, returned, outstanding, lock, pub, com>>
    /\ UNCHANGED notLock

\* Line 47.
ConAcquire ==
    /\ con.pc = "acquire"
    /\ lock = None
    /\ lock' = "con"
    /\ con' = [con EXCEPT !.pc = "locked"]
    /\ UNCHANGED <<inbound, active, buffer, published, returned, outstanding, pub, com>>
    /\ UNCHANGED notLock

\* Lines 48-49.
ConLocked ==
    /\ con.pc = "locked"
    /\ active' = session_key(con.msg)
    /\ lock' = None
    /\ returned' = Append(returned, con.msg)
    /\ outstanding' = outstanding \cup {con.msg}
    /\ con' = Idle
    /\ UNCHANGED <<inbound, buffer, published, pub, com>>
    /\ UNCHANGED notLock

\* The agent loop calls complete_inbound_turn(msg) for an envelope it was
\* given and reaches line 53.
ComCall ==
    /\ com.pc = "idle"
    /\ \E msg \in outstanding :
          /\ com' = [Idle EXCEPT !.pc = "acquire", !.msg = msg]
          /\ outstanding' = outstanding \ {msg}
    /\ UNCHANGED <<inbound, active, buffer, published, returned, lock, pub, con>>
    /\ UNCHANGED notLock

\* Line 53.
ComAcquire ==
    /\ com.pc = "acquire"
    /\ lock = None
    /\ lock' = "com"
    /\ com' = [com EXCEPT !.pc = "locked"]
    /\ UNCHANGED <<inbound, active, buffer, published, returned, outstanding, pub, con>>
    /\ UNCHANGED notLock

\* Lines 54-56, and 59 when nothing was buffered.
ComLocked ==
    /\ com.pc = "locked"
    /\ buffer' = DictRemove(buffer, session_key(com.msg))
    /\ IF DictGet(buffer, session_key(com.msg)) # <<>>
       THEN /\ com' = [com EXCEPT !.pc = "put",
                                  !.buffered = DictGet(buffer, session_key(com.msg))]
            /\ UNCHANGED <<active, lock>>
       ELSE /\ active' = None
            /\ lock' = None
            /\ com' = Idle
    /\ UNCHANGED <<inbound, published, returned, outstanding, pub, con>>
    /\ UNCHANGED notLock

\* Lines 57-59: the put inside the locked block, then the reset.
ComPut ==
    /\ com.pc = "put"
    /\ inbound' = Append(inbound, _merge_buffered_messages(com.buffered))
    /\ active' = None
    /\ lock' = None
    /\ com' = Idle
    /\ UNCHANGED <<buffer, published, returned, outstanding, pub, con>>
    /\ UNCHANGED notLock

PubStep == PubAcquire \/ PubLocked \/ PubPut
ConStep == ConGet \/ ConAcquire \/ ConLocked
ComStep == ComAcquire \/ ComLocked \/ ComPut

LockNext == PubCall \/ PubStep \/ ConCall \/ ConStep \/ ComCall \/ ComStep

LockSpec == Init /\ [][LockNext]_vars

\* The event loop runs every coroutine that can go on.
FairLockSpec ==
    /\ LockSpec
    /\ WF_vars(PubStep)
    /\ WF_vars(ConStep)
    /\ WF_vars(ComStep)

(***************************************************************************)
(* A call of _merge_buffered_messages on its own                           *)
(***************************************************************************)
\* The messages a caller may pass: senders, contents (one empty), media lists
\* of length 0, 1 and 2, metadata maps with different keys, timestamps with a
\* tie, two chats.
MergePool ==
    { [channel |-> "t", sender_id |-> "u1", chat_id |-> "1", content |-> "hi",
       media |-> <<"f1">>, metadata |-> ("message_id" :> "1"), timestamp |-> 1],
      [channel |-> "t", sender_id |-> "u2", chat_id |-> "1", content |-> "",
       media |-> <<>>,
       metadata |-> ("message_id" :> "2") @@ ("is_group" :> "yes"),
       timestamp |-> 2],
      [channel |-> "t", sender_id |-> "u1", chat_id |-> "1", content |-> "yo",
       media |-> <<"f3", "g3">>,
       metadata |-> ("message_id" :> "3") @@ ("reply_to" :> "1"),
       timestamp |-> 1],
      [channel |-> "t", sender_id |-> "u2", chat_id |-> "2", content |-> "hi",
       media |-> <<"f4">>, metadata |-> ("message_id" :> "4"), timestamp |-> 3] }

MergeInputs == UNION {[1..n -> MergePool] : n \in 1..MaxMergeLen}

MergeInit ==
    /\ BusInit
    /\ OutInit
    /\ LockInit
    /\ NoTool
    /\ NoTyping
    /\ merge_in \in MergeInputs
    /\ merge_out = <<>>

\* The call: merge_out holds the returned envelope.
Merge ==
    /\ merge_in # <<>>
    /\ merge_out = <<>>
    /\ merge_out' = <<_merge_buffered_messages(merge_in)>>
    /\ UNCHANGED merge_in
    /\ UNCHANGED notMerge

MergeSpec == MergeInit /\ [][Merge]_vars

(***************************************************************************)
(* The outbound side: publish_outbound, consume_outbound,                  *)
(* subscribe_outbound, dispatch_outbound, stop                             *)
(*                                                                         *)
(* dispatch_outbound is suspended in two places: in wait_for(get) and in   *)
(* the callback it awaits.  From the end of a callback to the next         *)
(* callback, or to the test of _running and the next wait_for, it runs     *)
(* without a suspension, so these are single steps.                        *)
(***************************************************************************)
OutChannels == {"x", "y"}
Callbacks == {"cb1", "cb2"}

\* The i-th message handed to publish_outbound.
OutboundMessage(ch, i) == [channel |-> ch, chat_id |-> "1", content |-> "o" \o ToString(i)]

\* The number of registrations in _outbound_subscribers.
Registrations == Cardinality({<<c, j>> \in OutChannels \X (1..MaxSubs + 1) :
                                 c \in DOMAIN subscribers /\ j <= Len(subscribers[c])})

publish_outbound(msg) ==
    /\ outbound' = Append(outbound, msg)
    /\ sent' = Append(sent, msg)
    /\ UNCHANGED <<subscribers, running, dpc, cur, taken, dequeued, calls>>
    /\ UNCHANGED notOut

\* The agent publishes the next reply.
PublishOut ==
    /\ Len(sent) < MaxOut
    /\ \E ch \in OutChannels : publish_outbound(OutboundMessage(ch, Len(sent) + 1))

\* consume_outbound that returns the head of the mailbox and leaves it there.
consume_outbound_peek ==
    /\ outbound # <<>>
    /\ UNCHANGED outbound
    /\ taken' = Append(taken, Head(outbound))
    /\ UNCHANGED <<subscribers, running, dpc, cur, sent, dequeued, calls>>
    /\ UNCHANGED notOut

\* consume_outbound(): returns once the mailbox is not empty.
consume_outbound ==
    /\ outbound # <<>>
    /\ outbound' = Tail(outbound)
    /\ taken' = Append(taken, Head(outbound))
    /\ UNCHANGED <<subscribers, running, dpc, cur, sent, dequeued, calls>>
    /\ UNCHANGED notOut

subscribe_outbound(channel, callback) ==
    /\ subscribers' = DictAppend(subscribers, channel, callback)
    /\ UNCHANGED <<outbound, running, dpc, cur, sent, taken, dequeued, calls>>
    /\ UNCHANGED notOut

\* A channel registers a sender; nothing keeps it from registering twice.
SubscribeOut ==
    /\ Registrations < MaxSubs
    /\ \E ch \in OutChannels, cb \in Callbacks : subscribe_outbound(ch, cb)

stop ==
    /\ running' = FALSE
    /\ UNCHANGED <<outbound, subscribers, dpc, cur, sent, taken, dequeued, calls>>
    /\ UNCHANGED notOut

\* The list the for loop of line 123 walks: the list object held by the dict,
\* so registrations appended during the walk are seen.
CurList == DictGet(subscribers, cur.msg.channel)

\* `while self._running`: on to the next wait_for, or return.
WhileTest == IF running THEN "waiting" ELSE "returned"

\* dispatch_outbound without line 118: the flag is tested as it was left.
DispatchStart_keeps_flag ==
    /\ dpc = "idle"
    /\ UNCHANGED running
    /\ dpc' = WhileTest
    /\ UNCHANGED <<outbound, subscribers, cur, sent, taken, dequeued, calls>>
    /\ UNCHANGED notOut

\* dispatch_outbound is started: line 118 and the first test of line 119.
DispatchStart ==
    /\ dpc = "idle"
    /\ running' = TRUE
    /\ dpc' = "waiting"
    /\ UNCHANGED <<outbound, subscribers, cur, sent, taken, dequeued, calls>>
    /\ UNCHANGED notOut

\* The get of line 121 that takes the newest message instead of the oldest.
DispatchGet_lifo ==
    /\ dpc = "waiting"
    /\ outbound # <<>>
    /\ LET msg == outbound[Len(outbound)]
           subs == DictGet(subscribers, msg.channel)
       IN  /\ outbound' = SubSeq(outbound, 1, Len(outbound) - 1)
           /\ dequeued' = Append(dequeued, [msg |-> msg, subs |-> subs])
           /\ IF subs = <<>>
              THEN cur' = NoCur /\ dpc' = WhileTest
              ELSE cur' = [msg |-> msg, idx |-> 1] /\ dpc' = "in_callback"
    /\ UNCHANGED <<subscribers, running, sent, taken, calls>>
    /\ UNCHANGED notOut

\* The get of line 121 followed by a dispatch that puts a message nobody is
\* subscribed to back on the mailbox.
DispatchGet_requeue ==
    /\ dpc = "waiting"
    /\ outbound # <<>>
    /\ LET msg == Head(outbound)
           subs == DictGet(subscribers, msg.channel)
       IN  /\ dequeued' = Append(dequeued, [msg |-> msg, subs |-> subs])
           /\ IF subs = <<>>
              THEN /\ outbound' = Append(Tail(outbound), msg)
                   /\ cur' = NoCur /\ dpc' = WhileTest
              ELSE /\ outbound' = Tail(outbound)
                   /\ cur' = [msg |-> msg, idx |-> 1] /\ dpc' = "in_callback"
    /\ UNCHANGED <<subscribers, running, sent, taken, calls>>
    /\ UNCHANGED notOut

\* Lines 121-125: wait_for(get) returns a message; its channel's list is
\* looked up and the first callback is called, or there is no callback.
DispatchGet ==
    /\ dpc = "waiting"
    /\ outbound # <<>>
    /\ LET msg == Head(outbound)
           subs == DictGet(subscribers, msg.channel)
       IN  /\ outbound' = Tail(outbound)
           /\ dequeued' = Append(dequeued, [msg |-> msg, subs |-> subs])
           /\ IF subs = <<>>
              THEN cur' = NoCur /\ dpc' = WhileTest
              ELSE cur' = [msg |-> msg, idx |-> 1] /\ dpc' = "in_callback"
    /\ UNCHANGED <<subscribers, running, sent, taken, calls>>
    /\ UNCHANGED notOut

\* A get without wait_for: on an empty mailbox the coroutine stays suspended.
DispatchTimeout_never ==
    /\ dpc = "waiting"
    /\ outbound = <<>>
    /\ UNCHANGED vars

\* Lines 128-129: the wait of line 121 times out and line 119 is tested
\* again.  The mailbox is empty, or a message was put at the moment the
\* time ran out: the cancelled get has not removed it and it stays queued.
DispatchTimeout ==
    /\ dpc = "waiting"
    /\ dpc' = WhileTest
    /\ UNCHANGED <<outbound, subscribers, running, cur, sent, taken, dequeued, calls>>
    /\ UNCHANGED notOut

\* The end of a callback without the try of lines 124-127: an exception
\* leaves dispatch_outbound.
DispatchCallbackEnd_no_try(outcome) ==
    /\ dpc = "in_callback"
    /\ calls' = Append(calls, [msg |-> cur.msg, callback |-> CurList[cur.idx],
                               outcome |-> outcome])
    /\ IF outcome = "raise"
       THEN cur' = NoCur /\ dpc' = "crashed"
       ELSE IF cur.idx < Len(CurList)
            THEN cur' = [cur EXCEPT !.idx = @ + 1] /\ dpc' = "in_callback"
            ELSE cur' = NoCur /\ dpc' = WhileTest
    /\ UNCHANGED <<outbound, subscribers, running, sent, taken, dequeued>>
    /\ UNCHANGED notOut

\* The end of a callback that is called again after it raised.
DispatchCallbackEnd_retry(outcome) ==
    /\ dpc = "in_callback"
    /\ calls' = Append(calls, [msg |-> cur.msg, callback |-> CurList[cur.idx],
                               outcome |-> outcome])
    /\ IF outcome = "raise"
       THEN cur' = cur /\ dpc' = "in_callback"
       ELSE IF cur.idx < Len(CurList)
            THEN cur' = [cur EXCEPT !.idx = @ + 1] /\ dpc' = "in_callback"
            ELSE cur' = NoCur /\ dpc' = WhileTest
    /\ UNCHANGED <<outbound, subscribers, running, sent, taken, dequeued>>
    /\ UNCHANGED notOut

\* Lines 123-127, 119: the awaited callback returns or raises an Exception,
\* which is caught and logged; the next callback of the list is called, or
\* the list is exhausted and line 119 is tested.
DispatchCallbackEnd(outcome) ==
    /\ dpc = "in_callback"
    /\ calls' = Append(calls, [msg |-> cur.msg, callback |-> CurList[cur.idx],
                               outcome |-> outcome])
    /\ IF cur.idx < Len(CurList)
       THEN cur' = [cur EXCEPT !.idx = @ + 1] /\ dpc' = "in_callback"
       ELSE cur' = NoCur /\ dpc' = WhileTest
    /\ UNCHANGED <<outbound, subscribers, running, sent, taken, dequeued>>
    /\ UNCHANGED notOut

DispatchCallback == \E outcome \in {"ok", "raise"} : DispatchCallbackEnd(outcome)

OutNext ==
    \/ PublishOut
    \/ consume_outbound
    \/ SubscribeOut
    \/ stop
    \/ DispatchStart
    \/ DispatchGet
    \/ DispatchTimeout
    \/ DispatchCallback

OutSpec == Init /\ [][OutNext]_vars

\* stop() called when dispatch_outbound has not been started yet.
EarlyStop ==
    /\ dpc = "idle"
    /\ running' = FALSE
    /\ early_stop' = TRUE
    /\ UNCHANGED <<outbound, subscribers, dpc, cur, sent, taken, dequeued, calls>>
    /\ UNCHANGED <<busVars, mergeVars, lockVars, toolVars, typingVars>>

\* The outbound side with callers of stop() before and after the start of
\* dispatch_outbound.
EarlyStopNext == EarlyStop \/ OutNext

EarlyStopSpec == Init /\ [][EarlyStopNext]_vars

\* The event loop runs dispatch_outbound whenever it can go on, and every
\* callback it awaits ends.
FairOutSpec ==
    /\ OutSpec
    /\ WF_vars(DispatchGet)
    /\ WF_vars(DispatchTimeout)
    /\ WF_vars(DispatchCallback)

(***************************************************************************)
(* Callers                                                                 *)
(***************************************************************************)
\* A channel adapter publishes the next message.
Publish ==
    /\ Len(published) < MaxMsgs
    /\ \E ch \in Channels, chat \in Chats :
          publish_inbound(InboundMessage(ch, chat, Len(published) + 1))

\* Any caller of the bus: the operations in any order, complete_inbound_turn
\* with an envelope of a turn or with one that never was a turn.
Complete == \E msg \in outstanding : complete_inbound_turn(msg)

CompleteStranger == \E chat \in Chats : complete_inbound_turn(Stranger(chat))

Next == Publish \/ consume_inbound \/ Complete \/ CompleteStranger

Spec == Init /\ [][Next]_vars

\* The agent loop: consume_inbound, handle, complete_inbound_turn(original
\* envelope), again.
LoopConsume == outstanding = {} /\ consume_inbound

LoopComplete == \E msg \in outstanding : complete_inbound_turn(msg)

LoopNext == Publish \/ LoopConsume \/ LoopComplete

LoopSpec == Init /\ [][LoopNext]_vars

FairLoopSpec == LoopSpec /\ WF_vars(LoopConsume) /\ WF_vars(LoopComplete)

\* The bus while a callback awaited by dispatch_outbound never returns: the
\* dispatcher stays suspended at line 125, the channel adapters, the agent
\* loop and the producers of outbound messages go on calling the bus.
\* One channel registers its sender and the agent replies on that channel.
StuckSubscribe == Registrations < MaxSubs /\ subscribe_outbound("x", "cb1")

StuckPublishOut ==
    /\ Len(sent) < MaxOut
    /\ publish_outbound(OutboundMessage("x", Len(sent) + 1))

StuckPublish ==
    /\ dpc = "in_callback"
    /\ Len(published) < MaxMsgs
    /\ publish_inbound(InboundMessage("t", "1", Len(published) + 1))

StuckConsume == dpc = "in_callback" /\ LoopConsume

StuckComplete == dpc = "in_callback" /\ LoopComplete

StuckNext ==
    \/ StuckSubscribe
    \/ StuckPublishOut
    \/ DispatchStart
    \/ DispatchGet
    \/ StuckPublish
    \/ StuckConsume
    \/ StuckComplete

StuckSpec == Init /\ [][StuckNext]_vars

\* The event loop keeps running the agent loop.
FairStuckSpec == StuckSpec /\ WF_vars(StuckConsume) /\ WF_vars(StuckComplete)

(***************************************************************************)
(* Vocabulary of the properties                                            *)
(***************************************************************************)
IsMerged(e) == "collected_messages" \in DOMAIN e.metadata

\* The contents of the published messages an envelope carries.
Constituents(e) ==
    IF IsMerged(e)
    THEN {e.metadata["collected_messages"][j].content :
             j \in 1..Len(e.metadata["collected_messages"])}
    ELSE {e.content}

\* The contents of the messages the consumer has received so far.
Delivered == UNION {Constituents(returned[j]) : j \in 1..Len(returned)}

\* The contents of the messages held in the collect buffer.
BufferedContents ==
    UNION {{buffer[k][j].content : j \in 1..Len(buffer[k])} : k \in DOMAIN buffer}

\* The session keys consume_inbound has made active so far.
ActivatedKeys == {session_key(returned[j]) : j \in 1..Len(returned)}

\* e is the merge of m1 and then m2, spelled out.
IsMergeOfTwo(e, m1, m2) ==
    /\ e.content = "[" \o m1.sender_id \o "] " \o m1.content \o "\n\n"
                   \o "[" \o m2.sender_id \o "] " \o m2.content
    /\ e.media = m1.media \o m2.media
    /\ e.channel = m2.channel /\ e.chat_id = m2.chat_id
    /\ IsMerged(e)
    /\ Len(e.metadata["collected_messages"]) = 2
    /\ e.metadata["collected_messages"][1].content = m1.content
    /\ e.metadata["collected_messages"][2].content = m2.content

(***************************************************************************)
(* C1  (FairLoopSpec)                                                      *)
(***************************************************************************)
\* C1: with a consumer that keeps calling consume_inbound and then
\* complete_inbound_turn, every message handed to publish_inbound is
\* eventually returned by consume_inbound, as itself or as a constituent of a
\* merged envelope; no message is dropped.
C1_EveryMessageDelivered ==
    \A i \in 1..MaxMsgs : (Len(published) >= i) ~> (Content(i) \in Delivered)

\* Two messages of one session, both published while no turn was active, have
\* both been returned, each as itself.
C1_Witness ==
    \E i, j \in 1..Len(published) :
        /\ i < j
        /\ published[i].active_at = None /\ published[j].active_at = None
        /\ session_key(published[i].msg) = session_key(published[j].msg)
        /\ \E a, b \in 1..Len(returned) :
              returned[a] = published[i].msg /\ returned[b] = published[j].msg

C3_NextIsMerge ==
    [][(last'.op = "consume" /\ Len(flush.buf) = 2)
          => IsMergeOfTwo(last'.msg, flush.buf[1], flush.buf[2])]_vars

\* C3: after a completion that flushed two buffered messages m1, m2, the next
\* consume_inbound returns merge([m1, m2]) exactly when the inbound mailbox
\* was empty at the completion; otherwise the merged envelope waits behind
\* the envelopes that were already queued.
C3_NextIsMergeIfMailboxEmpty ==
    [][(last'.op = "consume" /\ Len(flush.buf) = 2)
          => (IsMergeOfTwo(last'.msg, flush.buf[1], flush.buf[2])
                 <=> flush.ahead = 0)]_vars

\* consume_inbound has just returned the merge of two buffered messages.
C3_Witness ==
    /\ last.op = "consume"
    /\ IsMerged(last.msg)
    /\ Len(last.msg.metadata["collected_messages"]) = 2
    /\ \E i, j \in 1..Len(published) :
          /\ i < j
          /\ published[i].active_at = session_key(published[i].msg)
          /\ published[j].active_at = session_key(published[j].msg)
          /\ IsMergeOfTwo(last.msg, published[i].msg, published[j].msg)

C5_PublishFrame ==
    [][last'.op = "publish"
          => LET msg == last'.msg
                 k == session_key(msg)
             IN  /\ active' = active
                 /\ IF k = active
                    THEN /\ inbound' = inbound
                         /\ DOMAIN buffer' = (DOMAIN buffer) \cup {k}
                         /\ buffer'[k] = Append(DictGet(buffer, k), msg)
                         /\ \A j \in (DOMAIN buffer) \ {k} : buffer'[j] = buffer[j]
                    ELSE /\ inbound' = Append(inbound, msg)
                         /\ buffer' = buffer]_vars

\* The last publish_inbound buffered its message behind an earlier one, and
\* an earlier call enqueued a message of another session on the mailbox.
C5_Witness ==
    /\ last.op = "publish"
    /\ session_key(last.msg) = active
    /\ Len(buffer[active]) >= 2
    /\ \E i \in 1..Len(published) :
          /\ published[i].active_at # None
          /\ published[i].active_at # session_key(published[i].msg)

(***************************************************************************)
(* C6  (LoopSpec)                                                          *)
(***************************************************************************)
\* C6: when the consumer alternates consume_inbound and
\* complete_inbound_turn(original envelope), every key of pending_buffer is
\* the active session: at most one buffer exists, and none when no session
\* is active.
C6_RegistryInvariant ==
    /\ \A k \in DOMAIN buffer : k = active
    /\ Cardinality(DOMAIN buffer) <= 1
    /\ active = None => buffer = EmptyDict

\* The active session has a buffer of two messages, and an earlier turn has
\* already been completed.
C6_Witness ==
    /\ active # None
    /\ DOMAIN buffer = {active}
    /\ Len(buffer[active]) >= 2
    /\ Len(returned) >= 2

(***************************************************************************)
(* C7  (Spec)                                                              *)
(***************************************************************************)
\* C7: complete_inbound_turn(msg) removes msg's session from pending_buffer,
\* enqueues merge(buffer) at the mailbox tail only when that buffer was not
\* empty, leaves the mailbox alone otherwise, touches no other buffer, and
\* leaves active_session none in both cases.
C7_CompleteEffect ==
    [][last'.op = "complete"
          => LET k == session_key(last'.msg)
                 buffered == DictGet(buffer, k)
             IN  /\ DOMAIN buffer' = (DOMAIN buffer) \ {k}
                 /\ \A j \in DOMAIN buffer' : buffer'[j] = buffer[j]
                 /\ active' = None
                 /\ IF k \in DOMAIN buffer
                    THEN inbound' = Append(inbound, _merge_buffered_messages(buffered))
                    ELSE inbound' = inbound]_vars

\* A completion has just flushed a buffer: the merged envelope is the tail of
\* the mailbox and no session is active; consume_inbound had returned twice.
C7_Witness ==
    /\ last.op = "complete"
    /\ flush.buf # <<>>
    /\ active = None
    /\ inbound # <<>>
    /\ inbound[Len(inbound)] = _merge_buffered_messages(flush.buf)
    /\ Len(returned) >= 2

(***************************************************************************)
(* C8  (Spec)                                                              *)
(***************************************************************************)
\* C8: complete_inbound_turn with an envelope whose session key was never
\* activated leaves active_session, pending_buffer and the inbound mailbox as
\* they were, also while another session is active.
C8_MisuseIsNoOp ==
    [][(last'.op = "complete" /\ session_key(last'.msg) \notin ActivatedKeys)
          => active' = active /\ buffer' = buffer /\ inbound' = inbound]_vars

C10_OwnedUntilComplete ==
    [][(active # None /\ last'.op # "complete") => active' = active]_vars

\* C10: only complete_inbound_turn resets active_session to none and only
\* consume_inbound sets it to another session; publish_inbound never changes
\* it.  So without a completion S stays active until the next consume_inbound
\* returns, and a message buffered for S is not returned by consume_inbound
\* as long as it is in the buffer.
C10_OnlyCompleteFrees ==
    [][/\ (active # None /\ active' = None) => last'.op = "complete"
       /\ (active # None /\ active' \notin {None, active}) => last'.op = "consume"
       /\ BufferedContents' \cap Delivered' = {}]_vars

\* S is active with a buffered message, no turn of S has been completed, and
\* consume_inbound has returned twice since the start.
C10_Witness ==
    /\ active # None
    /\ active \in DOMAIN buffer
    /\ outstanding # {}
    /\ \A j \in 1..Len(returned) : returned[j] \in outstanding
    /\ Len(returned) >= 2
    /\ last.op = "publish"

Part(m) == "[" \o m.sender_id \o "] " \o m.content

RECURSIVE ContentUpTo(_, _)
\* The parts of ms[1..n], in order, each two separated by a blank line.
ContentUpTo(ms, n) ==
    IF n = 1 THEN Part(ms[1])
    ELSE ContentUpTo(ms, n - 1) \o "\n\n" \o Part(ms[n])

RECURSIVE MediaUpTo(_, _)
\* The media lists of ms[1..n], one after the other.
MediaUpTo(ms, n) ==
    IF n = 0 THEN <<>> ELSE MediaUpTo(ms, n - 1) \o ms[n].media

\* C12: for two or more messages, the merged content is the strings
\* "[sender_id] content" of the inputs in input order joined by a blank line,
\* and the merged media is the concatenation of the inputs' media lists in
\* input order.
C12_ContentAndMedia ==
    (merge_out # <<>> /\ Len(merge_in) >= 2)
       => /\ merge_out[1].content = ContentUpTo(merge_in, Len(merge_in))
          /\ merge_out[1].media = MediaUpTo(merge_in, Len(merge_in))

\* Three messages have been merged, the middle one with empty content and no
\* media, the others with media.
C12_Witness ==
    /\ merge_out # <<>>
    /\ Len(merge_in) = 3
    /\ merge_in[2].content = "" /\ merge_in[2].media = <<>>
    /\ merge_in[1].media # <<>> /\ Len(merge_in[3].media) = 2
    /\ merge_out[1].content = "[u1] hi\n\n[u2] \n\n[u1] yo"
    /\ merge_out[1].media = <<"f1", "f3", "g3">>

(***************************************************************************)
(* C13  (MergeSpec)                                                        *)
(***************************************************************************)
\* C13: for two or more messages, channel, sender_id, chat_id and timestamp
\* of the merged envelope are the last input's, and its metadata is the last
\* input's metadata with every key and value kept plus the one key
\* collected_messages; keys that only earlier inputs have do not appear.
C13_RoutingAndMetadataFromLast ==
    (merge_out # <<>> /\ Len(merge_in) >= 2)
       => LET e == merge_out[1]
              l == merge_in[Len(merge_in)]
          IN  /\ e.channel = l.channel
              /\ e.sender_id = l.sender_id
              /\ e.chat_id = l.chat_id
              /\ e.timestamp = l.timestamp
              /\ "collected_messages" \notin DOMAIN l.metadata
              /\ DOMAIN e.metadata = (DOMAIN l.metadata) \cup {"collected_messages"}
              /\ \A k \in DOMAIN l.metadata : e.metadata[k] = l.metadata[k]

\* The merged inputs differ in sender, chat and timestamp, and the first has
\* a metadata key that the last has not.
C13_Witness ==
    /\ merge_out # <<>>
    /\ Len(merge_in) >= 2
    /\ LET f == merge_in[1]
           l == merge_in[Len(merge_in)]
       IN  /\ f.sender_id # l.sender_id
           /\ f.chat_id # l.chat_id
           /\ f.timestamp # l.timestamp
           /\ (DOMAIN f.metadata) \ (DOMAIN l.metadata) # {}
           /\ merge_out[1].chat_id = l.chat_id

(***************************************************************************)
(* C14  (MergeSpec)                                                        *)
(***************************************************************************)
\* The timestamps a message can carry.
Timestamps == 0..9

\* datetime.fromisoformat: the timestamps that an isoformat string stands for.
fromisoformat(str) == {t \in Timestamps : isoformat(t) = str}

\* C14: for two or more messages, collected_messages has one snapshot per
\* input, in input order, and each snapshot gives back the input's sender_id,
\* content and media as they were and determines its timestamp.
C14_SnapshotsReconstructInputs ==
    (merge_out # <<>> /\ Len(merge_in) >= 2)
       => LET c == merge_out[1].metadata["collected_messages"]
          IN  /\ Len(c) = Len(merge_in)
              /\ \A j \in 1..Len(merge_in) :
                    /\ c[j].sender_id = merge_in[j].sender_id
                    /\ c[j].content = merge_in[j].content
                    /\ c[j].media = merge_in[j].media
                    /\ fromisoformat(c[j].timestamp) = {merge_in[j].timestamp}

\* Snapshots have been taken of inputs whose timestamps are not in
\* increasing order and of two inputs with equal content.
C14_Witness ==
    /\ merge_out # <<>>
    /\ Len(merge_in) = 3
    /\ merge_in[1].timestamp > merge_in[2].timestamp
    /\ merge_in[1].content = merge_in[3].content
    /\ merge_in[1].sender_id # merge_in[3].sender_id
    /\ Len(merge_out[1].metadata["collected_messages"]) = 3

(***************************************************************************)
(* C15  (Spec)                                                             *)
(***************************************************************************)
\* C15: merge([m]) is m itself: a turn completed with exactly one buffered
\* message m puts m on the mailbox as it was published, with no sender
\* prefix in its content and no collected_messages key in its metadata.
C15_SingleMessagePassthrough ==
    [][(last'.op = "complete" /\ Len(DictGet(buffer, session_key(last'.msg))) = 1)
          => LET m == buffer[session_key(last'.msg)][1]
             IN  /\ inbound' = Append(inbound, m)
                 /\ \E i \in 1..Len(published) : published[i].msg = m
                 /\ ~IsMerged(inbound'[Len(inbound')])
                 /\ inbound'[Len(inbound')].content = m.content]_vars

\* A completion has just flushed a buffer of one message, and the envelope at
\* the mailbox tail is that message.
C15_Witness ==
    /\ last.op = "complete"
    /\ Len(flush.buf) = 1
    /\ inbound # <<>>
    /\ inbound[Len(inbound)] = flush.buf[1]
    /\ \E i \in 1..Len(published) :
          /\ published[i].msg = flush.buf[1]
          /\ published[i].active_at = session_key(flush.buf[1])

(***************************************************************************)
(* Vocabulary of the outbound claims                                       *)
(***************************************************************************)
IsPrefix(a, b) == Len(a) <= Len(b) /\ SubSeq(b, 1, Len(a)) = a

\* The ended invocations made with message m, in order.
CallsFor(m) == SelectSeq(calls, LAMBDA c : c.msg = m)

\* The callbacks invoked with message m, in order.
CallbacksFor(m) == [i \in 1..Len(CallsFor(m)) |-> CallsFor(m)[i].callback]

\* The for loop of the n-th message the dispatcher dequeued has ended.
Dispatched(n) == n < Len(dequeued) \/ dpc # "in_callback"

\* The position of a published message in the order of publish_outbound.
PublishIndex(m) == CHOOSE i \in 1..Len(sent) : sent[i] = m

(***************************************************************************)
(* C17: For every message the dispatcher dequeued, the callbacks invoked   *)
(* with it are, in order and one invocation per registration, a prefix of  *)
(* the list registered for the message's channel, whether they returned or *)
(* raised; once its dispatch has ended, every registration made for the    *)
(* channel before the dequeue has been invoked exactly once.  Callbacks    *)
(* are invoked only with messages the dispatcher dequeued.                 *)
(***************************************************************************)
C17_FanOut ==
    /\ \A n \in 1..Len(dequeued) :
          LET d == dequeued[n]
              invoked == CallbacksFor(d.msg)
          IN  /\ IsPrefix(invoked, DictGet(subscribers, d.msg.channel))
              /\ Dispatched(n) => IsPrefix(d.subs, invoked)
    /\ \A i \in 1..Len(calls) :
          \E n \in 1..Len(dequeued) : dequeued[n].msg = calls[i].msg

\* A message of channel x was dispatched while x and y had one callback
\* each: the callback of x was invoked once, raised and was not called
\* again, and the callback of y was not invoked.
C17_Witness ==
    /\ "x" \in DOMAIN subscribers /\ "y" \in DOMAIN subscribers
    /\ subscribers["x"] # subscribers["y"]
    /\ \E n \in 1..Len(dequeued) :
          /\ dequeued[n].msg.channel = "x"
          /\ dequeued[n].subs = subscribers["x"]
          /\ Dispatched(n)
          /\ Len(CallsFor(dequeued[n].msg)) = 1
          /\ CallsFor(dequeued[n].msg)[1].outcome = "raise"
          /\ Len(calls) = 1
    /\ dpc = "waiting"

(***************************************************************************)
(* C18: When a callback invoked by dispatch_outbound raises, the           *)
(* dispatcher goes on in the same step: to the next callback registered    *)
(* for the same message if there is one, else to the test of _running and, *)
(* unless stop() was called, to the wait for the next message.  The        *)
(* mailbox and what publish_outbound did are untouched, and                *)
(* dispatch_outbound ends only by returning after stop().                  *)
(***************************************************************************)
C18_CallbackIsolation ==
    /\ [](dpc \in {"idle", "waiting", "in_callback", "returned"})
    /\ [](dpc = "returned" => ~running)
    /\ [][(Len(calls') = Len(calls) + 1 /\ calls'[Len(calls')].outcome = "raise") =>
            /\ IF cur.idx < Len(CurList)
               THEN dpc' = "in_callback" /\ cur' = [cur EXCEPT !.idx = @ + 1]
               ELSE dpc' = (IF running THEN "waiting" ELSE "returned")
            /\ outbound' = outbound
            /\ sent' = sent
            /\ running' = running]_vars

\* A callback raised, a later callback was invoked with the same message,
\* and a callback was invoked with a later message.
C18_Witness ==
    \E i, j, k \in 1..Len(calls) :
        /\ i < j /\ j < k
        /\ calls[i].outcome = "raise"
        /\ calls[j].msg = calls[i].msg
        /\ calls[j].outcome = "ok"
        /\ calls[k].msg # calls[i].msg

(***************************************************************************)
(* C19: Once stop() has been called while dispatch_outbound is in its      *)
(* loop, dispatch_outbound eventually returns, whether the mailbox is      *)
(* empty or not, given that the event loop runs the dispatcher and every   *)
(* callback it awaits ends.                                                *)
(***************************************************************************)
C19_StopLeadsToReturn ==
    (dpc \in {"waiting", "in_callback"} /\ ~running) ~> (dpc = "returned")

\* stop() was called while the dispatcher waited on an empty mailbox, and
\* dispatch_outbound has returned although nothing was ever published.
C19_Witness ==
    /\ dpc = "returned"
    /\ ~running
    /\ sent = <<>>
    /\ subscribers # EmptyDict

(***************************************************************************)
(* C20: Messages leave the outbound mailbox in the order publish_outbound  *)
(* enqueued them: the mailbox always holds the newest published messages   *)
(* in publish order, and each consumer has taken its messages in publish   *)
(* order.  With the single dispatcher, callback invocations are ordered by *)
(* the publish order of their messages, and an invocation in progress is   *)
(* for a message that is not older than any message already invoked.       *)
(***************************************************************************)
C20_OutboundFIFO ==
    /\ Len(taken) + Len(dequeued) + Len(outbound) = Len(sent)
    /\ outbound = SubSeq(sent, Len(sent) - Len(outbound) + 1, Len(sent))
    /\ \A i, j \in 1..Len(taken) :
          i < j => PublishIndex(taken[i]) < PublishIndex(taken[j])
    /\ \A i, j \in 1..Len(dequeued) :
          i < j => PublishIndex(dequeued[i].msg) < PublishIndex(dequeued[j].msg)
    /\ \A i, j \in 1..Len(calls) :
          i < j => PublishIndex(calls[i].msg) <= PublishIndex(calls[j].msg)
    /\ dpc = "in_callback" =>
          \A i \in 1..Len(calls) : PublishIndex(calls[i].msg) <= PublishIndex(cur.msg)

\* Two messages were published and dispatched: every invocation with the
\* first ended before the invocation with the second that is in progress.
C20_Witness ==
    /\ Len(sent) = 2
    /\ Len(dequeued) = 2
    /\ dpc = "in_callback"
    /\ cur.msg = sent[2]
    /\ Len(CallsFor(sent[1])) = Len(calls)
    /\ Len(calls) >= 1

(***************************************************************************)
(* C21  (Spec)                                                             *)
(***************************************************************************)
\* The published messages that publish_inbound put into the buffer of
\* session k and that are still there: the last n of those buffered for k,
\* in the order of their publish_inbound calls.
BufferedFor(k) == SelectSeq(published, LAMBDA p : p.active_at = k /\ session_key(p.msg) = k)

LastOf(s, n) == SubSeq(s, Len(s) - n + 1, Len(s))

\* The contents of the constituents of an envelope, in the order it lists them.
ConstituentSeq(e) ==
    IF IsMerged(e)
    THEN [j \in 1..Len(e.metadata["collected_messages"]) |->
             e.metadata["collected_messages"][j].content]
    ELSE <<e.content>>

\* C21: the list buffered for a session holds its messages in the order
\* their publish_inbound calls took effect, and the envelope a completion
\* flushes lists them (content parts, media, collected_messages) in that
\* order.
C21_BufferFIFO ==
    /\ [](\A k \in DOMAIN buffer :
             /\ Len(buffer[k]) <= Len(BufferedFor(k))
             /\ \A j \in 1..Len(buffer[k]) :
                   buffer[k][j] = LastOf(BufferedFor(k), Len(buffer[k]))[j].msg)
    /\ [][(last'.op = "complete" /\ inbound' # inbound)
            => LET b == DictGet(buffer, session_key(last'.msg))
                   e == inbound'[Len(inbound')]
               IN  /\ b # <<>>
                   /\ inbound' = Append(inbound, e)
                   /\ ConstituentSeq(e) = [j \in 1..Len(b) |-> b[j].content]
                   /\ e.media = MediaUpTo(b, Len(b))
                   /\ Len(b) >= 2 => e.content = ContentUpTo(b, Len(b))
                   /\ Len(b) = 1 => e = b[1]]_vars

\* Three messages of one session were buffered during its turn and the
\* completion has just flushed them as one envelope that lists them in
\* publish order.
C21_Witness ==
    /\ last.op = "complete"
    /\ inbound # <<>>
    /\ LET e == inbound[Len(inbound)]
       IN  /\ IsMerged(e)
           /\ Len(ConstituentSeq(e)) = 3
           /\ \E i, j, k \in 1..Len(published) :
                 /\ i < j /\ j < k
                 /\ ConstituentSeq(e) = <<published[i].msg.content,
                                          published[j].msg.content,
                                          published[k].msg.content>>

(***************************************************************************)
(* C22  (Spec)                                                             *)
(***************************************************************************)
\* C22: when consume_inbound returns envelope m, _active_inbound_session is
\* m.session_key; and when the mailbox held exactly one envelope of that
\* session, m is that envelope as it was in the mailbox, and the mailbox
\* holds none of the session afterwards.
C22_ConsumeActivates ==
    [][last'.op = "consume"
          => LET m == last'.msg
                 k == session_key(m)
             IN  /\ active' = k
                 /\ returned' = Append(returned, m)
                 /\ CountKey(inbound, k) = 1
                       => /\ \E j \in 1..Len(inbound) : inbound[j] = m
                          /\ CountKey(inbound', k) = 0]_vars

\* consume_inbound has just returned the only envelope of its session while
\* another session was active and an envelope of that other session stays
\* in the mailbox.
C22_Witness ==
    /\ last.op = "consume"
    /\ active = session_key(last.msg)
    /\ CountKey(inbound, active) = 0
    /\ inbound # <<>>
    /\ Len(returned) >= 2
    /\ session_key(returned[Len(returned) - 1]) # active
    /\ returned[Len(returned) - 1] \in outstanding
    /\ ~IsMerged(last.msg)

(***************************************************************************)
(* C23  (Spec)                                                             *)
(***************************************************************************)
\* The envelopes of mailbox q that are not of session k, in mailbox order.
OtherSessions(q, k) == SelectSeq(q, LAMBDA e : session_key(e) # k)

\* C23: a call of consume_inbound leaves the envelopes of the sessions other
\* than the returned one in the mailbox, none lost or duplicated, in their
\* relative order.
C23_CrossSessionOrder ==
    [][last'.op = "consume"
          => LET k == session_key(last'.msg)
             IN  OtherSessions(inbound', k) = OtherSessions(inbound, k)]_vars

\* consume_inbound has just returned an envelope while two envelopes of
\* another session and a further envelope of its own session were queued
\* behind it.
C23_Witness ==
    /\ last.op = "consume"
    /\ Len(OtherSessions(inbound, active)) >= 2
    /\ CountKey(inbound, active) >= 1
    /\ session_key(inbound[1]) # active

(***************************************************************************)
(* C24  (FairStuckSpec)                                                    *)
(***************************************************************************)
\* C24: while dispatch_outbound is suspended in a callback that never
\* returns, publish_inbound, consume_inbound on a mailbox that is not empty,
\* complete_inbound_turn and publish_outbound can each take their step, and
\* the agent loop still comes to receive every message published to the bus.
C24_StuckCallbackStallsOnlyDispatcher ==
    /\ [](dpc = "in_callback" =>
            /\ ENABLED publish_inbound(InboundMessage("t", "1", Len(published) + 1))
            /\ inbound # <<>> => ENABLED consume_inbound
            /\ \A m \in outstanding : ENABLED complete_inbound_turn(m)
            /\ ENABLED publish_outbound(OutboundMessage("x", Len(sent) + 1)))
    /\ (dpc = "in_callback")
          ~> (dpc = "in_callback"
              /\ \A i \in 1..Len(published) : Content(i) \in Delivered)

\* With the dispatcher inside a callback all the time, messages were
\* published, buffered during a turn, flushed and returned as a merged
\* envelope, and a further outbound message was published.
C24_Witness ==
    /\ dpc = "in_callback"
    /\ calls = <<>>
    /\ \E j \in 1..Len(returned) : IsMerged(returned[j])
    /\ active = None
    /\ Len(dequeued) = 1
    /\ Len(sent) = 2

(***************************************************************************)
(* C25  (FairLockSpec)                                                     *)
(***************************************************************************)
\* C25: _inbound_collect_lock is held only between its acquisition and the
\* end of the locked block, never by a coroutine that waits for the mailbox
\* or for the lock; its holder can always take its next step; and every
\* call of publish_inbound and of complete_inbound_turn returns, also while
\* a consumer waits in consume_inbound on an empty mailbox.
C25_NoDeadlockOnLock ==
    /\ [](/\ lock = "pub" <=> pub.pc = "locked"
          /\ lock = "con" <=> con.pc = "locked"
          /\ lock = "com" <=> com.pc \in {"locked", "put"})
    /\ [](/\ lock = "pub" => ENABLED PubStep
          /\ lock = "con" => ENABLED ConStep
          /\ lock = "com" => ENABLED ComStep)
    /\ (pub.pc # "idle") ~> (pub.pc = "idle")
    /\ (com.pc # "idle") ~> (com.pc = "idle")

\* A consumer waits on the empty mailbox while a turn is outstanding; a
\* message of the active session has been buffered by a publish_inbound that
\* returned, and complete_inbound_turn holds the lock and is about to flush.
C25_Witness ==
    /\ con.pc = "get"
    /\ inbound = <<>>
    /\ pub.pc = "idle"
    /\ com.pc = "put"
    /\ lock = "com"
    /\ Len(com.buffered) >= 1

(***************************************************************************)
(* C26  (LoopSpec)                                                         *)
(***************************************************************************)
\* How often content c is carried by the envelopes of sequence q, as an
\* envelope's own content or as a constituent of a merged envelope.
Carried(c, q) ==
    Cardinality({<<n, j>> \in (1..Len(q)) \X (1..MaxMsgs + 1) :
                    j <= Len(ConstituentSeq(q[n])) /\ ConstituentSeq(q[n])[j] = c})

\* How often content c is held in the collect buffer.
Buffered(c) ==
    Cardinality({<<k, j>> \in (DOMAIN buffer) \X (1..MaxMsgs + 1) :
                    j <= Len(buffer[k]) /\ buffer[k][j].content = c})

\* C26: with a consumer that alternates consume_inbound and
\* complete_inbound_turn(original envelope), every message accepted by
\* publish_inbound is in exactly one place, as itself or as a constituent of
\* one merged envelope: the mailbox, the collect buffer, or the envelopes
\* already returned; so none is returned twice and none is lost.
C26_Conservation ==
    \A i \in 1..Len(published) :
        Carried(Content(i), inbound) + Buffered(Content(i))
           + Carried(Content(i), returned) = 1

\* Messages are in all three places at once: one that went through the
\* buffer is back in the mailbox, another is buffered, two were returned.
C26_Witness ==
    /\ inbound # <<>>
    /\ buffer # EmptyDict
    /\ Len(returned) >= 2
    /\ \E i \in 1..Len(published) :
          /\ published[i].active_at = session_key(published[i].msg)
          /\ Carried(Content(i), inbound) = 1

(***************************************************************************)
(* C27  (Spec)                                                             *)
(***************************************************************************)
RECURSIVE DeliverySeq(_)
\* The contents the consumer has received, in the order it received them:
\* turn after turn, and inside a merged envelope in the order it lists them.
DeliverySeq(q) ==
    IF q = <<>> THEN <<>>
    ELSE DeliverySeq(SubSeq(q, 1, Len(q) - 1)) \o ConstituentSeq(q[Len(q)])

\* Content c has been received, and where.
Received(c) == \E n \in 1..Len(DeliverySeq(returned)) : DeliverySeq(returned)[n] = c

DeliveryIndex(c) ==
    CHOOSE n \in 1..Len(DeliverySeq(returned)) : DeliverySeq(returned)[n] = c

\* C27 as stated: of two messages of one session, the one published first
\* is received no later than the other.
C27_SessionOrder ==
    \A i, j \in 1..Len(published) :
        (/\ i < j
         /\ session_key(published[i].msg) = session_key(published[j].msg)
         /\ Received(Content(j)))
           => /\ Received(Content(i))
              /\ DeliveryIndex(Content(i)) < DeliveryIndex(Content(j))

\* C27: as long as the consumer has alternated consume_inbound and
\* complete_inbound_turn(original envelope), of two messages of one session
\* the one published first is received no later than the other: in an
\* earlier turn, or earlier within the same merged envelope.
C27_SessionOrderIfAlternating ==
    alternated =>
       \A i, j \in 1..Len(published) :
           (/\ i < j
            /\ session_key(published[i].msg) = session_key(published[j].msg)
            /\ Received(Content(j)))
              => /\ Received(Content(i))
                 /\ DeliveryIndex(Content(i)) < DeliveryIndex(Content(j))

\* The consumer has alternated; of one session it received a message that
\* was queued in the mailbox during the session's turn and then, in a later
\* turn, two messages published after it that went through the buffer.
C27_Witness ==
    /\ alternated
    /\ \E i, j, k \in 1..Len(published) :
          /\ i < j /\ j < k
          /\ session_key(published[i].msg) = session_key(published[j].msg)
          /\ session_key(published[j].msg) = session_key(published[k].msg)
          /\ published[i].active_at # session_key(published[i].msg)
          /\ published[j].active_at = session_key(published[j].msg)
          /\ published[k].active_at = session_key(published[k].msg)
          /\ Received(Content(i)) /\ Received(Content(j)) /\ Received(Content(k))
          /\ \E n \in 1..Len(returned) :
                ConstituentSeq(returned[n]) = <<Content(j), Content(k)>>

(***************************************************************************)
(* C28  (OutSpec)                                                          *)
(***************************************************************************)
\* C28: a message the dispatcher dequeued while no callback was registered
\* for its channel is gone: it is not in the outbound mailbox again, and no
\* callback is ever invoked with it, whatever is registered afterwards.
C28_UnsubscribedDiscarded ==
    \A n \in 1..Len(dequeued) :
        dequeued[n].subs = <<>>
           => /\ CallsFor(dequeued[n].msg) = <<>>
              /\ \A j \in 1..Len(outbound) : outbound[j] # dequeued[n].msg
              /\ (dpc = "in_callback" => cur.msg # dequeued[n].msg)

\* A message was dequeued while its channel had no callback; a callback was
\* registered for the channel afterwards and has been invoked with the next
\* message of the channel, and the dispatcher waits on the empty mailbox.
C28_Witness ==
    /\ Len(dequeued) = 2
    /\ dequeued[1].subs = <<>>
    /\ dequeued[2].msg.channel = dequeued[1].msg.channel
    /\ dequeued[2].subs # <<>>
    /\ Len(calls) = 1
    /\ calls[1].msg = dequeued[2].msg
    /\ outbound = <<>>
    /\ dpc = "waiting"

(***************************************************************************)
(* C29  (FairOutSpec)                                                      *)
(***************************************************************************)
\* How often message m occurs in sequence q.
Occurrences(m, q) == Cardinality({j \in 1..Len(q) : q[j] = m})

\* The messages dispatch_outbound took, in order.
DequeuedMsgs == [n \in 1..Len(dequeued) |-> dequeued[n].msg]

\* C29: with dispatch_outbound and callers of consume_outbound on one bus,
\* every published message is either still in the mailbox or was taken by
\* exactly one of them, once, also when the dispatcher's wait times out with
\* a message in the mailbox; and while the dispatcher waits, a mailbox that
\* is not empty does not stay so: its messages are taken, or the dispatcher
\* returns after stop().
C29_TakenExactlyOnce ==
    /\ [](\A i \in 1..Len(sent) :
             Occurrences(sent[i], taken) + Occurrences(sent[i], DequeuedMsgs)
                + Occurrences(sent[i], outbound) = 1)
    /\ [](dpc = "returned" => ~running)
    /\ (dpc = "waiting" /\ outbound # <<>>) ~> (outbound = <<>> \/ dpc = "returned")

\* Two messages were published; a caller of consume_outbound took the first
\* while the dispatcher was started, the dispatcher took the second and is
\* inside its callback.
C29_Witness ==
    /\ Len(sent) = 2
    /\ taken = <<sent[1]>>
    /\ DequeuedMsgs = <<sent[2]>>
    /\ dpc = "in_callback"
    /\ cur.msg = sent[2]
    /\ outbound = <<>>

(***************************************************************************)
(* C30  (EarlyStopSpec)                                                    *)
(***************************************************************************)
\* C30: a stop() called before dispatch_outbound starts changes nothing
\* the dispatcher reads; dispatch_outbound sets _running when it starts,
\* whatever was called before; _running is cleared afterwards only by a
\* stop() called after the start, and dispatch_outbound returns only once
\* that has happened.
C30_StopNotLatched ==
    /\ [][(early_stop' /\ ~early_stop) => UNCHANGED outVars]_vars
    /\ [][(dpc = "idle" /\ dpc' # "idle") => (running' /\ dpc' = "waiting")]_vars
    /\ [][(running /\ ~running') => (dpc # "idle" /\ dpc' = dpc)]_vars
    /\ [][(dpc # "returned" /\ dpc' = "returned") => (dpc # "idle" /\ ~running)]_vars
    /\ [](early_stop /\ dpc = "idle" => ~running)

\* stop() was called before the start; dispatch_outbound was started all
\* the same, has taken a message and waits for the next one with the flag
\* set.
C30_Witness ==
    /\ early_stop
    /\ running
    /\ dpc = "waiting"
    /\ Len(dequeued) >= 1

(***************************************************************************)
(* MessageTool (src/nanobot/agent/tools/message.py)                        *)
(*                                                                         *)
(* execute runs without suspension up to `await self._send_callback(msg)`  *)
(* (line 122), where the callback is invoked and the coroutine waits for   *)
(* it; set_context and set_send_callback are plain methods and may be      *)
(* called while execute waits.  One call of execute at a time.             *)
(***************************************************************************)
\* The number of invocations of a tool's send callback.
MaxSends == 2

\* Arguments.  A string argument is None, empty or a name; metadata is None
\* (<<>>) or a dict (<<d>>); send_sticker is a bool or a str; media is None
\* or a list, and None and [] are both <<>>: `if media` treats them alike.
ToolChannels == {"", "telegram"}
ToolChats == {"", "7"}
ChannelArgs == {None, "", "discord"}
ChatArgs == {None, "", "9"}
ContextMetadata ==
    { <<>>, <<EmptyMeta>>, <<("message_id" :> "5")>>,
      <<("message_id" :> "5") @@ ("sticker_file_id" :> "S1")>> }
StickerArgs ==
    { [str |-> FALSE, val |-> "False"], [str |-> FALSE, val |-> "True"],
      [str |-> TRUE, val |-> ""], [str |-> TRUE, val |-> "S9"] }
MediaArgs == { <<>>, <<"~/a.png">>, <<"/b.png", "~/c.png">> }

\* bool(s) for a string or None
Truthy(s) == s # None /\ s # ""

\* bool(send_sticker)
StickerTruthy(s) == IF s.str THEN s.val # "" ELSE s.val = "True"

\* `metadata or {}`
MetadataOrEmpty(metadata) ==
    IF metadata = <<>> THEN EmptyMeta
    ELSE IF DOMAIN metadata[1] = {} THEN EmptyMeta
    ELSE metadata[1]

\* str(Path(p).expanduser()): a leading "~" becomes the home directory.
expanduser(p) ==
    CASE p = "~/a.png" -> "/home/u/a.png"
      [] p = "~/c.png" -> "/home/u/c.png"
      [] OTHER -> p

\* MessageTool.__init__
MessageTool(send_callback, default_channel, default_chat_id, default_metadata) ==
    [send_callback |-> send_callback,
     default_channel |-> default_channel,
     default_chat_id |-> default_chat_id,
     default_metadata |-> MetadataOrEmpty(default_metadata)]

\* A tool as some caller constructed it.
ToolInit ==
    /\ BusInit
    /\ NoMerge
    /\ OutInit
    /\ LockInit
    /\ NoTyping
    /\ tool \in { MessageTool(cb, ch, chat, md) :
                    cb \in {None, "cb"}, ch \in ToolChannels,
                    chat \in ToolChats, md \in ContextMetadata }
    /\ ex = NoEx
    /\ invocations = 0

\* Everything but the tool.
notTool ==
    <<busVars, mergeVars, outVars, lockVars, early_stop, typingVars>>

set_context(channel, chat_id, metadata) ==
    /\ tool' = [tool EXCEPT !.default_channel = channel,
                            !.default_chat_id = chat_id,
                            !.default_metadata = MetadataOrEmpty(metadata)]
    /\ UNCHANGED <<ex, invocations>>
    /\ UNCHANGED notTool

set_send_callback(callback) ==
    /\ tool' = [tool EXCEPT !.send_callback = callback]
    /\ UNCHANGED <<ex, invocations>>
    /\ UNCHANGED notTool

\* execute with `metadata = self._default_metadata` at line 99: the changes
\* of lines 103 and 111 are made to the stored dict.
execute_no_copy(content, channel, chat_id, media, send_sticker) ==
    LET ch == IF Truthy(channel) THEN channel ELSE tool.default_channel
        chat == IF Truthy(chat_id) THEN chat_id ELSE tool.default_chat_id
        call == [pc |-> "returned", content |-> content, channel |-> channel,
                 chat_id |-> chat_id, media |-> media,
                 send_sticker |-> send_sticker, msg |-> <<>>,
                 result |-> "", invoked |-> 0]
        copy == tool.default_metadata
        no_sticker == /\ StickerTruthy(send_sticker)
                      /\ ~send_sticker.str
                      /\ "sticker_file_id" \notin DOMAIN tool.default_metadata
        metadata ==
            IF StickerTruthy(send_sticker)
            THEN IF send_sticker.str
                 THEN DictPut(copy, "sticker_file_id", send_sticker.val)
                 ELSE copy
            ELSE DictRemove(copy, "sticker_file_id")
        msg == [channel |-> ch, chat_id |-> chat, content |-> content,
                media |-> [j \in 1..Len(media) |-> expanduser(media[j])],
                metadata |-> metadata]
    IN  /\ ex.pc # "awaiting"
        /\ IF ~Truthy(ch) \/ ~Truthy(chat)
           THEN /\ ex' = [call EXCEPT
                            !.result = "Error: No target channel/chat specified"]
                /\ UNCHANGED invocations
           ELSE IF ~Truthy(tool.send_callback)
           THEN /\ ex' = [call EXCEPT
                            !.result = "Error: Message sending not configured"]
                /\ UNCHANGED invocations
           ELSE IF no_sticker
           THEN /\ ex' = [call EXCEPT
                            !.result = "Error: No sticker available to send"]
                /\ UNCHANGED invocations
           ELSE /\ invocations' = invocations + 1
                /\ ex' = [call EXCEPT !.pc = "awaiting", !.msg = <<msg>>,
                                      !.invoked = 1]
        /\ tool' = IF Truthy(ch) /\ Truthy(chat) /\ Truthy(tool.send_callback)
                      /\ ~no_sticker
                   THEN [tool EXCEPT !.default_metadata = metadata]
                   ELSE tool
        /\ UNCHANGED notTool

\* execute (lines 89-122): up to its return with an error string or to the
\* invocation of the send callback.
execute(content, channel, chat_id, media, send_sticker) ==
    LET ch == IF Truthy(channel) THEN channel ELSE tool.default_channel
        chat == IF Truthy(chat_id) THEN chat_id ELSE tool.default_chat_id
        call == [pc |-> "returned", content |-> content, channel |-> channel,
                 chat_id |-> chat_id, media |-> media,
                 send_sticker |-> send_sticker, msg |-> <<>>,
                 result |-> "", invoked |-> 0]
        copy == tool.default_metadata
        no_sticker == /\ StickerTruthy(send_sticker)
                      /\ ~send_sticker.str
                      /\ "sticker_file_id" \notin DOMAIN tool.default_metadata
        metadata ==
            IF StickerTruthy(send_sticker)
            THEN IF send_sticker.str
                 THEN DictPut(copy, "sticker_file_id", send_sticker.val)
                 ELSE copy
            ELSE DictRemove(copy, "sticker_file_id")
        msg == [channel |-> ch, chat_id |-> chat, content |-> content,
                media |-> [j \in 1..Len(media) |-> expanduser(media[j])],
                metadata |-> metadata]
    IN  /\ ex.pc # "awaiting"
        /\ IF ~Truthy(ch) \/ ~Truthy(chat)
           THEN /\ ex' = [call EXCEPT
                            !.result = "Error: No target channel/chat specified"]
                /\ UNCHANGED invocations
           ELSE IF ~Truthy(tool.send_callback)
           THEN /\ ex' = [call EXCEPT
                            !.result = "Error: Message sending not configured"]
                /\ UNCHANGED invocations
           ELSE IF no_sticker
           THEN /\ ex' = [call EXCEPT
                            !.result = "Error: No sticker available to send"]
                /\ UNCHANGED invocations
           ELSE /\ invocations' = invocations + 1
                /\ ex' = [call EXCEPT !.pc = "awaiting", !.msg = <<msg>>,
                                      !.invoked = 1]
        /\ UNCHANGED tool
        /\ UNCHANGED notTool

\* execute that calls the send callback again when it raised.
execute_resume_retry(outcome) ==
    /\ ex.pc = "awaiting"
    /\ IF outcome = "raise" /\ ex.invoked < 2
       THEN /\ invocations' = invocations + 1
            /\ ex' = [ex EXCEPT !.invoked = @ + 1]
       ELSE /\ ex' = [ex EXCEPT !.pc = "returned",
                                !.result = "Error sending message: boom"]
            /\ UNCHANGED invocations
    /\ UNCHANGED tool
    /\ UNCHANGED notTool

\* execute (lines 123-130): the send callback has returned or has raised
\* Exception("boom"); execute returns its string.
execute_resume(outcome) ==
    LET ch == ex.msg[1].channel
        chat == ex.msg[1].chat_id
        sent_to == "Message sent to " \o ch \o ":" \o chat
    IN  /\ ex.pc = "awaiting"
        /\ ex' = [ex EXCEPT
                    !.pc = "returned",
                    !.result =
                        IF outcome = "raise" THEN "Error sending message: boom"
                        ELSE IF StickerTruthy(ex.send_sticker)
                        THEN sent_to \o " (sticker)"
                        ELSE IF ex.media # <<>>
                        THEN sent_to \o " with " \o ToString(Len(ex.media))
                                     \o " image(s)"
                        ELSE sent_to]
        /\ UNCHANGED <<tool, invocations>>
        /\ UNCHANGED notTool

\* The callers of the tool: the agent loop sets the context of the turn, the
\* model calls the tool with any arguments.
SetContext ==
    \E channel \in ToolChannels, chat_id \in ToolChats, metadata \in ContextMetadata :
        set_context(channel, chat_id, metadata)

SetSendCallback == set_send_callback("cb")

Execute ==
    /\ invocations < MaxSends
    /\ \E channel \in ChannelArgs, chat_id \in ChatArgs, media \in MediaArgs,
          send_sticker \in StickerArgs :
          execute("hello", channel, chat_id, media, send_sticker)

ExecuteResume == \E outcome \in {"ok", "raise"} : execute_resume(outcome)

ToolNext == SetContext \/ SetSendCallback \/ Execute \/ ExecuteResume

ToolSpec == ToolInit /\ [][ToolNext]_vars

(***************************************************************************)
(* C31: a call of MessageTool.execute invokes the send callback at most    *)
(* once; it invokes it only on entry, with a target resolved; and a call   *)
(* whose resolved channel or chat id (the explicit argument, else the      *)
(* stored default) is empty, or that finds no send callback configured,    *)
(* returns at once with an error string and invokes nothing.               *)
(***************************************************************************)
\* The target of the call that has just begun: the argument, else the default.
ResolvedChannel == IF Truthy(ex'.channel) THEN ex'.channel ELSE tool.default_channel
ResolvedChat == IF Truthy(ex'.chat_id) THEN ex'.chat_id ELSE tool.default_chat_id

\* This step is the entry of a call of execute.
ExecuteEntered == ex.pc # "awaiting" /\ ex' # ex

C31_SendAtMostOnceNeverWithoutTarget ==
    /\ [](ex.invoked <= 1)
    /\ [][invocations' # invocations =>
            /\ ExecuteEntered
            /\ invocations' = invocations + 1
            /\ ex'.invoked = 1
            /\ Truthy(ResolvedChannel) /\ Truthy(ResolvedChat)
            /\ Truthy(tool.send_callback)]_vars
    /\ [][(/\ ExecuteEntered
           /\ \/ ~Truthy(ResolvedChannel)
              \/ ~Truthy(ResolvedChat)
              \/ ~Truthy(tool.send_callback)) =>
            /\ ex'.pc = "returned"
            /\ ex'.invoked = 0
            /\ ex'.msg = <<>>
            /\ invocations' = invocations
            /\ ex'.result \in {"Error: No target channel/chat specified",
                               "Error: Message sending not configured"}]_vars

\* A tool that has sent one message is called with an empty channel while
\* its default channel is empty too: the call returned the error and the
\* callback was not invoked again.
C31_Witness ==
    /\ invocations = 1
    /\ ex.pc = "returned"
    /\ ex.channel = ""
    /\ tool.default_channel = ""
    /\ Truthy(tool.send_callback)
    /\ ex.invoked = 0
    /\ ex.result = "Error: No target channel/chat specified"

(***************************************************************************)
(* C32: the message a call of execute hands to the send callback has the   *)
(* metadata key sticker_file_id exactly when send_sticker was truthy: the  *)
(* given file id when send_sticker is a string, the sticker id of the      *)
(* stored context when it is true; a call with send_sticker true and no    *)
(* sticker id in the context sends nothing and returns an error.  The      *)
(* other keys are those of the context, and no step of execute changes     *)
(* the stored defaults: only set_context does.                             *)
(***************************************************************************)
\* The keys of a dict other than the sticker id.
OtherKeys(d) == DOMAIN d \ {"sticker_file_id"}

C32_StickerKeyIffRequested ==
    /\ [](ex.msg # <<>> =>
            ("sticker_file_id" \in DOMAIN ex.msg[1].metadata
                <=> StickerTruthy(ex.send_sticker)))
    /\ [][(ExecuteEntered /\ ex'.msg # <<>>) =>
            LET carried == ex'.msg[1].metadata
                asked == ex'.send_sticker
            IN  /\ OtherKeys(carried) = OtherKeys(tool.default_metadata)
                /\ \A k \in OtherKeys(carried) : carried[k] = tool.default_metadata[k]
                /\ StickerTruthy(asked) /\ asked.str =>
                      carried["sticker_file_id"] = asked.val
                /\ StickerTruthy(asked) /\ ~asked.str =>
                      /\ "sticker_file_id" \in DOMAIN tool.default_metadata
                      /\ carried["sticker_file_id"] =
                             tool.default_metadata["sticker_file_id"]]_vars
    /\ [][(/\ ExecuteEntered
           /\ StickerTruthy(ex'.send_sticker) /\ ~ex'.send_sticker.str
           /\ "sticker_file_id" \notin DOMAIN tool.default_metadata) =>
            /\ ex'.pc = "returned"
            /\ ex'.msg = <<>>
            /\ invocations' = invocations
            /\ ex'.result \in {"Error: No target channel/chat specified",
                               "Error: Message sending not configured",
                               "Error: No sticker available to send"}]_vars
    /\ [][(ex' # ex \/ invocations' # invocations) => tool' = tool]_vars

\* The context holds a sticker id; a first message was sent with it, a second
\* one without send_sticker went out without the key, and the context still
\* holds the sticker id.
C32_Witness ==
    /\ invocations = 2
    /\ ex.pc = "returned"
    /\ ex.msg # <<>>
    /\ ~StickerTruthy(ex.send_sticker)
    /\ "sticker_file_id" \notin DOMAIN ex.msg[1].metadata
    /\ "message_id" \in DOMAIN ex.msg[1].metadata
    /\ "sticker_file_id" \in DOMAIN tool.default_metadata

(***************************************************************************)
(* Typing indicators of TelegramChannel (src/nanobot/channels/telegram.py) *)
(*                                                                         *)
(* _start_typing and _stop_typing are plain methods; send reaches its      *)
(* _stop_typing and stop finishes its loop over the typing tasks before    *)
(* their first await, so each of them changes the typing tasks in one      *)
(* step.  stop then waits for the application to shut down and clears      *)
(* _app on its return; other calls may run in between.  A typing task is   *)
(* "pending" from asyncio.create_task on, "cancelling" once cancel() was   *)
(* called on it, and "done" when _typing_loop has returned.                *)
(***************************************************************************)
\* The number of typing tasks created.
MaxTasks == 3

TypingChats == {"1", "2"}

\* Everything but the typing indicators.
notTyping == <<busVars, mergeVars, outVars, lockVars, early_stop, toolVars>>

\* task.cancel() on every task of the set that is not done
Cancel(ts, cancelled) ==
    [t \in 1..Len(ts) |->
        IF t \in cancelled /\ ts[t].state # "done"
        THEN [ts[t] EXCEPT !.state = "cancelling"]
        ELSE ts[t]]

\* The tasks _stop_typing(chat_id) pops from the dict d.
Popped(d, chat_id) == IF chat_id \in DOMAIN d THEN {d[chat_id]} ELSE {}

\* _start_typing that registers the new task without stopping the old one.
start_typing_no_cancel(chat_id) ==
    /\ Len(tasks) < MaxTasks
    /\ tasks' = Append(tasks, [chat |-> chat_id, state |-> "pending"])
    /\ typing_tasks' = DictPut(typing_tasks, chat_id, Len(tasks) + 1)
    /\ typing_last' = [op |-> "_start_typing", chat_id |-> chat_id]
    /\ UNCHANGED <<app, stopping>>
    /\ UNCHANGED notTyping

\* _start_typing(chat_id), lines 460-464
start_typing(chat_id) ==
    /\ Len(tasks) < MaxTasks
    /\ tasks' = Append(Cancel(tasks, Popped(typing_tasks, chat_id)),
                       [chat |-> chat_id, state |-> "pending"])
    /\ typing_tasks' = DictPut(DictRemove(typing_tasks, chat_id), chat_id,
                               Len(tasks) + 1)
    /\ typing_last' = [op |-> "_start_typing", chat_id |-> chat_id]
    /\ UNCHANGED <<app, stopping>>
    /\ UNCHANGED notTyping

\* _stop_typing(chat_id), lines 466-470
stop_typing(chat_id) ==
    /\ tasks' = Cancel(tasks, Popped(typing_tasks, chat_id))
    /\ typing_tasks' = DictRemove(typing_tasks, chat_id)
    /\ typing_last' = [op |-> "_stop_typing", chat_id |-> chat_id]
    /\ UNCHANGED <<app, stopping>>
    /\ UNCHANGED notTyping

\* send(msg), lines 186-193: nothing without an application, else
\* _stop_typing(msg.chat_id); what follows leaves the typing tasks alone.
send(chat_id) ==
    /\ IF app = None
       THEN UNCHANGED <<tasks, typing_tasks>>
       ELSE /\ tasks' = Cancel(tasks, Popped(typing_tasks, chat_id))
            /\ typing_tasks' = DictRemove(typing_tasks, chat_id)
    /\ typing_last' = [op |-> "send", chat_id |-> chat_id]
    /\ UNCHANGED <<app, stopping>>
    /\ UNCHANGED notTyping

RECURSIVE StopAll(_, _, _)
\* for chat_id in list(self._typing_tasks): self._stop_typing(chat_id)
StopAll(chats, d, ts) ==
    IF chats = {} THEN [typing_tasks |-> d, tasks |-> ts]
    ELSE LET chat_id == CHOOSE c \in chats : TRUE
         IN  StopAll(chats \ {chat_id}, DictRemove(d, chat_id),
                     Cancel(ts, Popped(d, chat_id)))

\* start(), lines 117-129: the application is built.
channel_start ==
    /\ app = None
    /\ app' = "app"
    /\ typing_last' = [op |-> "start", chat_id |-> None]
    /\ UNCHANGED <<typing_tasks, tasks, stopping>>
    /\ UNCHANGED notTyping

\* stop(), lines 171-181: every typing task is stopped; with an application
\* stop goes on to wait for its shutdown.
channel_stop ==
    LET after == StopAll(DOMAIN typing_tasks, typing_tasks, tasks)
    IN  /\ ~stopping
        /\ typing_tasks' = after.typing_tasks
        /\ tasks' = after.tasks
        /\ stopping' = (app # None)
        /\ typing_last' = [op |-> "stop", chat_id |-> None]
        /\ UNCHANGED app
        /\ UNCHANGED notTyping

\* stop(), lines 181-184: the application has shut down.
channel_stop_return ==
    /\ stopping
    /\ stopping' = FALSE
    /\ app' = None
    /\ typing_last' = [op |-> "stop returned", chat_id |-> None]
    /\ UNCHANGED <<typing_tasks, tasks>>
    /\ UNCHANGED notTyping

\* _typing_loop of task t, lines 472-482: it returns when it is cancelled,
\* when it finds no application, or when sending the chat action fails.
typing_loop(t) ==
    /\ tasks[t].state # "done"
    /\ tasks' = [tasks EXCEPT ![t].state = "done"]
    /\ UNCHANGED <<typing_tasks, app, stopping, typing_last>>
    /\ UNCHANGED notTyping

\* The callers: the handler of an incoming Telegram message starts the
\* indicator of its chat; the dispatcher sends replies; the gateway starts
\* and stops the channel.
StartTyping == \E chat_id \in TypingChats : start_typing(chat_id)

StopTyping == \E chat_id \in TypingChats : stop_typing(chat_id)

Send == \E chat_id \in TypingChats : send(chat_id)

TypingLoop == \E t \in 1..Len(tasks) : typing_loop(t)

TypingNext ==
    \/ StartTyping
    \/ StopTyping
    \/ Send
    \/ channel_start
    \/ channel_stop
    \/ channel_stop_return
    \/ TypingLoop

TypingSpec == Init /\ [][TypingNext]_vars

(***************************************************************************)
(* C33: whatever _start_typing, _stop_typing, send and stop calls were     *)
(* made, every typing task that is neither cancelled nor done is the one   *)
(* registered for its chat, so a chat has at most one such task and a      *)
(* registered task is never a cancelled one; _start_typing cancels the     *)
(* task registered for the chat, unless it is done, and registers a new    *)
(* one; and stop() leaves no task registered: none after its loop, none    *)
(* until the next _start_typing, and none at its return when no call was   *)
(* made while it waited.                                                   *)
(***************************************************************************)
\* The typing tasks of a chat on which cancel() was not called and that
\* have not returned.
PendingTasks(chat_id) ==
    {t \in 1..Len(tasks) : tasks[t].chat = chat_id /\ tasks[t].state = "pending"}

TypeOK ==
    /\ active \in SessionKeys \cup {None}
    /\ DOMAIN buffer \subseteq SessionKeys
    /\ Len(published) <= MaxMsgs
====
